---- MODULE Spec2Model ----
(***************************************************************************)
(* Points, streaks and time-windowed leaderboards of the Bootstrap Hub     *)
(* bot: the point ledger (AddPointsToUser), the daily check-in             *)
(* (CreateStandup), the focus-period lifecycle (handleFocusStart) and the  *)
(* scheduler's ended-period sweep (checkEndedPeriodsForGuild).             *)
(*                                                                         *)
(* Storage is SQLite behind gorm.  Tables are sequences of rows, a row's   *)
(* primary key is its index.  Time is an integer number of ticks,          *)
(* TicksPerDay ticks to the calendar day.                                  *)
(***************************************************************************)
EXTENDS Integers, Sequences, FiniteSets, TLC

\* ------------------------------------------------------------------ bounds
NumCalls == 2
MaxAmount == 2
TicksPerDay == 2
NumPosters == 2
MaxStandupDay == 4
MaxCheckIns == 3

\* --------------------------------------------------------- program constants
FocusPeriodDays == 14
FocusPeriodDuration == FocusPeriodDays * TicksPerDay

UserIds == {1, 2}
Calls == 1..NumCalls
Amounts == 1..MaxAmount
Posters == 1..NumPosters

\* Every user row of the model lives in one community.
GuildOf(u) == "g1"
Guilds == {GuildOf(u) : u \in UserIds}

NoRow == 0

VARIABLES
    now,                \* time.Now(), in ticks
    totalPoints,        \* users.total_points, by user id
    sprintPoints,       \* table sprint_points
    focusPeriods,       \* table focus_periods
    standups,           \* table standups
    streaks,            \* table user_streaks: the rows of each user id, at most one
                        \* (unique index idx_user_guild_streak)
    leaderboardChannel, \* guild_configs.leaderboard_channel, by guild
    posts,              \* leaderboard embeds sent to Discord
    readers,            \* transactions holding SQLite's SHARED lock
    writer,             \* transactions holding SQLite's RESERVED lock (at most one)
    pending,            \* the writer's uncommitted pages
    apu,                \* AddPointsToUser calls in flight
    cs,                 \* CreateStandup calls in flight
    fs,                 \* handleFocusStart calls in flight
    sweepLog,           \* what the last two sweeps run in a row did (emptied when
                        \* a period ends or the configuration changes)
    tasks,              \* table tasks
    users,              \* table users, with its identity columns
    fc,                 \* handleFocusComplete calls in flight
    cw,                 \* CreateWin calls in flight
    gu,                 \* the GetOrCreateUser calls that returned
    est,                \* the CalculatePoints calls that returned
    sched,              \* the number of daily checks the scheduler has run
    lb,                 \* the last leaderboard query and what it returned
    sc,                 \* the scheduler: its goroutine, ticker, stop channel and what it ran
    rc,                 \* the last runChecks: its inputs and the sweeps it started
    adds,               \* AddTask calls in flight
    chal,               \* challenges, their participants and the calls on them
    gsp,                \* GetOrCreateSprintPoints calls in flight
    wins                \* table wins: the number of rows of each user

\* The state of the scheduler's goroutine and of the calls in flight that the
\* sections below add.
restVars == <<sc, rc, adds, chal, gsp, wins>>

\* None of it is in use.
RestIdle ==
    /\ sc = <<>>
    /\ rc = <<>>
    /\ adds = <<>>
    /\ chal = <<>>
    /\ gsp = <<>>
    /\ wins = <<>>

\* All of it but sc.
exceptSc == <<rc, adds, chal, gsp, wins>>

ExceptScIdle ==
    /\ rc = <<>>
    /\ adds = <<>>
    /\ chal = <<>>
    /\ gsp = <<>>
    /\ wins = <<>>

\* All of it but rc.
exceptRc == <<sc, adds, chal, gsp, wins>>

ExceptRcIdle ==
    /\ sc = <<>>
    /\ adds = <<>>
    /\ chal = <<>>
    /\ gsp = <<>>
    /\ wins = <<>>

\* All of it but adds.
exceptAdds == <<sc, rc, chal, gsp, wins>>

ExceptAddsIdle ==
    /\ sc = <<>>
    /\ rc = <<>>
    /\ chal = <<>>
    /\ gsp = <<>>
    /\ wins = <<>>

\* All of it but chal.
exceptChal == <<sc, rc, adds, gsp, wins>>

ExceptChalIdle ==
    /\ sc = <<>>
    /\ rc = <<>>
    /\ adds = <<>>
    /\ gsp = <<>>
    /\ wins = <<>>

\* All of it but gsp.
exceptGsp == <<sc, rc, adds, chal, wins>>

ExceptGspIdle ==
    /\ sc = <<>>
    /\ rc = <<>>
    /\ adds = <<>>
    /\ chal = <<>>
    /\ wins = <<>>

\* All of it but wins.
exceptWins == <<sc, rc, adds, chal, gsp>>

ExceptWinsIdle ==
    /\ sc = <<>>
    /\ rc = <<>>
    /\ adds = <<>>
    /\ chal = <<>>
    /\ gsp = <<>>

vars == <<now, totalPoints, sprintPoints, focusPeriods, standups, streaks,
          leaderboardChannel, posts, readers, writer, pending, apu, cs, fs,
          sweepLog, tasks, users, fc, cw, gu, est, sched, lb, restVars>>

\* The state of goals, user identity, wins, the estimator and the scheduler.
extVars == <<tasks, users, fc, cw, gu, est, sched, lb, restVars>>

\* None of it is in use.
ExtIdle ==
    /\ tasks = <<>>
    /\ users = <<>>
    /\ fc = <<>>
    /\ cw = <<>>
    /\ gu = <<>>
    /\ est = <<>>
    /\ sched = 0
    /\ lb = <<>>
    /\ RestIdle

dbVars == <<totalPoints, sprintPoints, focusPeriods, standups, streaks,
            leaderboardChannel>>

\* The state the sections up to the leaderboards use.
coreVars == <<now, dbVars, posts, readers, writer, pending, apu, cs, fs,
              sweepLog, tasks, users, fc, cw, gu, est, sched, lb>>

\* ----------------------------------------------------------------- helpers
RECURSIVE SumOver(_, _)
SumOver(S, f) ==
    IF S = {} THEN 0
    ELSE LET x == CHOOSE y \in S : TRUE IN f[x] + SumOver(S \ {x}, f)

Indices(s) == 1..Len(s)

StartOfDay(t) == (t \div TicksPerDay) * TicksPerDay

\* Primary key of the first of the matching rows hits, NoRow when gorm's
\* First reports ErrRecordNotFound.
FirstRow(hits) ==
    IF hits = {} THEN NoRow ELSE CHOOSE i \in hits : \A j \in hits : i <= j

\* ------------------------------------------------------- SQLite transactions
NoPending == [tp |-> <<>>, sp |-> <<>>]

\* An empty database and no call in flight.
CoreIdle ==
    /\ now = 0
    /\ totalPoints = [u \in UserIds |-> 0]
    /\ sprintPoints = <<>>
    /\ focusPeriods = <<>>
    /\ standups = <<>>
    /\ streaks = [u \in UserIds |-> <<>>]
    /\ leaderboardChannel = [g \in Guilds |-> ""]
    /\ posts = <<>>
    /\ readers = {}
    /\ writer = {}
    /\ pending = NoPending
    /\ apu = <<>>
    /\ cs = <<>>
    /\ fs = <<>>
    /\ sweepLog = <<>>
    /\ tasks = <<>>
    /\ users = <<>>
    /\ fc = <<>>
    /\ cw = <<>>
    /\ gu = <<>>
    /\ est = <<>>
    /\ sched = 0
    /\ lb = <<>>

Committed == [tp |-> totalPoints, sp |-> sprintPoints]

\* What transaction p reads: its own uncommitted writes, else committed rows.
View(p) == IF p \in writer THEN pending ELSE Committed

\* A write needs the RESERVED lock, which one transaction holds at a time.
CanWrite(p) == writer \subseteq {p}

\* The pages p writes to: pending once it writes, a copy of the committed
\* rows at its first write.
WriteBase(p) == IF p \in writer THEN pending ELSE Committed

\* COMMIT needs the EXCLUSIVE lock: no other transaction holds SHARED.
CanCommit(p) == readers \ {p} = {}

\* ------------------------------------------------------------ AddPointsToUser
\* The caller passes the period's own window (startDate, endDate).
PeriodIdsOf(u) == {i \in Indices(focusPeriods) : focusPeriods[i].UserID = u}

IdleCall == [pc |-> "idle", userID |-> 1, periodID |-> 1, points |-> 1,
             userPts |-> 0, spID |-> NoRow, spPts |-> 0, result |-> "none"]

ApuErrors == {"failed to fetch user", "failed to update user points",
              "failed to fetch sprint points", "failed to create sprint points",
              "failed to update sprint points", "commit failed"}

\* The call has returned result; its locals are gone.
Returned(c, result) ==
    [IdleCall EXCEPT !.pc = "done", !.userID = c.userID, !.periodID = c.periodID,
                     !.points = c.points, !.result = result]

\* DB.Transaction(func(tx) ...): BEGIN takes no lock yet.
APUBegin(p) ==
    /\ apu[p].pc = "idle"
    /\ \E u \in UserIds, amt \in Amounts :
         \E fp \in PeriodIdsOf(u) :
            apu' = [apu EXCEPT ![p] = [IdleCall EXCEPT !.pc = "fetchUser",
                        !.userID = u, !.periodID = fp, !.points = amt]]
    /\ UNCHANGED <<extVars, now, dbVars, posts, readers, writer, pending, cs, fs, sweepLog>>

\* tx.Where("id = ?", userID).First(&user): a read inside the transaction
\* takes the SHARED lock and holds it until COMMIT or ROLLBACK.
\* (APUFetchUserNoLock is the same read made outside the transaction.)
APUFetchUserNoLock(p) ==
    /\ apu[p].pc = "fetchUser"
    /\ apu' = [apu EXCEPT ![p].pc = "saveUser",
                          ![p].userPts = View(p).tp[apu[p].userID]]
    /\ UNCHANGED <<extVars, now, dbVars, posts, readers, writer, pending, cs, fs, sweepLog>>

APUFetchUser(p) ==
    /\ apu[p].pc = "fetchUser"
    /\ readers' = readers \cup {p}
    /\ apu' = [apu EXCEPT ![p].pc = "saveUser",
                          ![p].userPts = View(p).tp[apu[p].userID]]
    /\ UNCHANGED <<extVars, now, dbVars, posts, writer, pending, cs, fs, sweepLog>>

\* user.TotalPoints += points; tx.Save(&user): writes the value computed from
\* the row as it was read.
APUSaveUser(p) ==
    /\ apu[p].pc = "saveUser"
    /\ CanWrite(p)
    /\ writer' = {p}
    /\ pending' = [WriteBase(p) EXCEPT
                      !.tp[apu[p].userID] = apu[p].userPts + apu[p].points]
    /\ apu' = [apu EXCEPT ![p].pc = "fetchSP"]
    /\ UNCHANGED <<extVars, now, dbVars, posts, readers, cs, fs, sweepLog>>

\* tx.Where("focus_period_id = ? AND user_id = ?", ...).First(&sp)
APUFetchSP(p) ==
    /\ apu[p].pc = "fetchSP"
    /\ LET tbl == View(p).sp
           i == FirstRow({j \in Indices(tbl) :
                             /\ tbl[j].FocusPeriodID = apu[p].periodID
                             /\ tbl[j].UserID = apu[p].userID})
       IN apu' = [apu EXCEPT
                    ![p].pc = IF i = NoRow THEN "createSP" ELSE "saveSP",
                    ![p].spID = i,
                    ![p].spPts = IF i = NoRow THEN 0 ELSE tbl[i].Points]
    /\ readers' = readers \cup {p}
    /\ UNCHANGED <<extVars, now, dbVars, posts, writer, pending, cs, fs, sweepLog>>

\* gorm.ErrRecordNotFound: tx.Create(&sp) with Points = points and the window
\* passed by the caller.
APUCreateSP(p) ==
    /\ apu[p].pc = "createSP"
    /\ CanWrite(p)
    /\ writer' = {p}
    /\ LET fp == focusPeriods[apu[p].periodID]
           row == [FocusPeriodID |-> apu[p].periodID, UserID |-> apu[p].userID,
                   GuildID |-> fp.GuildID, Points |-> apu[p].points,
                   StartDate |-> fp.StartDate, EndDate |-> fp.EndDate]
       IN pending' = [WriteBase(p) EXCEPT !.sp = Append(@, row)]
    /\ apu' = [apu EXCEPT ![p].pc = "commit"]
    /\ UNCHANGED <<extVars, now, dbVars, posts, readers, cs, fs, sweepLog>>

\* sp.Points += points; tx.Save(&sp)
APUSaveSP(p) ==
    /\ apu[p].pc = "saveSP"
    /\ CanWrite(p)
    /\ writer' = {p}
    /\ pending' = [WriteBase(p) EXCEPT
                      !.sp[apu[p].spID].Points = apu[p].spPts + apu[p].points]
    /\ apu' = [apu EXCEPT ![p].pc = "commit"]
    /\ UNCHANGED <<extVars, now, dbVars, posts, readers, cs, fs, sweepLog>>

\* The closure returned nil: tx.Commit() publishes both writes at once.
APUCommit(p) ==
    /\ apu[p].pc = "commit"
    /\ CanCommit(p)
    /\ totalPoints' = View(p).tp
    /\ sprintPoints' = View(p).sp
    /\ readers' = readers \ {p}
    /\ writer' = writer \ {p}
    /\ pending' = IF p \in writer THEN NoPending ELSE pending
    /\ apu' = [apu EXCEPT ![p] = Returned(apu[p], "ok")]
    /\ UNCHANGED <<extVars, now, focusPeriods, standups, streaks, leaderboardChannel,
                   posts, cs, fs, sweepLog>>

ApuErrorAt(pc) ==
    CASE pc = "fetchUser" -> "failed to fetch user"
      [] pc = "saveUser"  -> "failed to update user points"
      [] pc = "fetchSP"   -> "failed to fetch sprint points"
      [] pc = "createSP"  -> "failed to create sprint points"
      [] pc = "saveSP"    -> "failed to update sprint points"
      [] pc = "commit"    -> "commit failed"

\* Any storage step may fail (I/O error, SQLITE_BUSY): the closure returns the
\* error, or Commit does, and gorm rolls the transaction back.
\* (APUFailNoRollback is the same return with the writes kept.)
APUFailNoRollback(p) ==
    /\ apu[p].pc \in {"fetchUser", "saveUser", "fetchSP", "createSP", "saveSP", "commit"}
    /\ totalPoints' = View(p).tp
    /\ sprintPoints' = View(p).sp
    /\ readers' = readers \ {p}
    /\ writer' = writer \ {p}
    /\ pending' = IF p \in writer THEN NoPending ELSE pending
    /\ apu' = [apu EXCEPT ![p] = Returned(apu[p], ApuErrorAt(apu[p].pc))]
    /\ UNCHANGED <<extVars, now, focusPeriods, standups, streaks, leaderboardChannel,
                   posts, cs, fs, sweepLog>>

APUFail(p) ==
    /\ apu[p].pc \in {"fetchUser", "saveUser", "fetchSP", "createSP", "saveSP", "commit"}
    /\ readers' = readers \ {p}
    /\ writer' = writer \ {p}
    /\ pending' = IF p \in writer THEN NoPending ELSE pending
    /\ apu' = [apu EXCEPT ![p] = Returned(apu[p], ApuErrorAt(apu[p].pc))]
    /\ UNCHANGED <<extVars, now, dbVars, posts, cs, fs, sweepLog>>

\* Rows of the database when the calls are issued: every user has an ended
\* period and a current one.
PeriodRow(u, start) ==
    [UserID |-> u, GuildID |-> GuildOf(u), StartDate |-> start,
     EndDate |-> start + FocusPeriodDuration, LeaderboardPosted |-> FALSE]

LedgerPeriods ==
    <<PeriodRow(1, 0), PeriodRow(2, 0),
      PeriodRow(1, FocusPeriodDuration + TicksPerDay),
      PeriodRow(2, FocusPeriodDuration + TicksPerDay)>>

InitLedger ==
    /\ now = FocusPeriodDuration + TicksPerDay + 1
    /\ totalPoints = [u \in UserIds |-> 0]
    /\ sprintPoints = <<>>
    /\ focusPeriods = LedgerPeriods
    /\ standups = <<>>
    /\ streaks = [u \in UserIds |-> <<>>]
    /\ leaderboardChannel = [g \in Guilds |-> ""]
    /\ posts = <<>>
    /\ readers = {}
    /\ writer = {}
    /\ pending = NoPending
    /\ apu = [p \in Calls |-> IdleCall]
    /\ cs = <<>>
    /\ fs = <<>>
    /\ sweepLog = <<>>
    /\ ExtIdle

NextLedger ==
    \E p \in Calls :
        \/ APUBegin(p)
        \/ APUFetchUser(p)
        \/ APUSaveUser(p)
        \/ APUFetchSP(p)
        \/ APUCreateSP(p)
        \/ APUSaveSP(p)
        \/ APUCommit(p)
        \/ APUFail(p)

SpecLedger == InitLedger /\ [][NextLedger]_vars

\* Committed sprint subtotal of (period fp, user u).
SprintSubtotal(fp, u) ==
    LET rows == {i \in Indices(sprintPoints) :
                    sprintPoints[i].FocusPeriodID = fp /\ sprintPoints[i].UserID = u}
    IN SumOver(rows, [i \in rows |-> sprintPoints[i].Points])

SprintRowsTotal(u) ==
    LET rows == {i \in Indices(sprintPoints) : sprintPoints[i].UserID = u}
    IN SumOver(rows, [i \in rows |-> sprintPoints[i].Points])

\* Amounts passed by the calls in S.
AmountsOf(S) == SumOver(S, [p \in S |-> apu[p].points])

CallsReturned == \A p \in Calls : apu[p].pc = "done"
OkCalls == {p \in Calls : apu[p].pc = "done" /\ apu[p].result = "ok"}

\* C1: once every AddPointsToUser call has returned and all returned success,
\* each user's lifetime total is the sum of the amounts passed for that user
\* and each (period, user) sprint subtotal is the sum of the amounts passed
\* for that period, whatever the interleaving of the calls' steps was.
C1_LedgerSumsAmounts ==
    (CallsReturned /\ OkCalls = Calls) =>
        /\ \A u \in UserIds :
              totalPoints[u] = AmountsOf({p \in Calls : apu[p].userID = u})
        /\ \A fp \in Indices(focusPeriods) :
              SprintSubtotal(fp, focusPeriods[fp].UserID)
                  = AmountsOf({p \in Calls : apu[p].periodID = fp})

\* Two successful calls for the same user and period, and a third row's worth
\* of points on the ledger.
C1_Witness ==
    /\ CallsReturned /\ OkCalls = Calls
    /\ \E p, q \in Calls :
          /\ p # q
          /\ apu[p].userID = apu[q].userID
          /\ apu[p].periodID = apu[q].periodID
          /\ totalPoints[apu[p].userID] >= apu[p].points + apu[q].points

\* C4: AddPointsToUser is all-or-nothing.  In every reachable state the
\* committed lifetime total of a user is the sum of the amounts of the calls
\* that returned success, and so is the sum of the user's sprint subtotals: a
\* call that returned an error, at whichever storage step, changed neither.
C4_AddPointsAllOrNothing ==
    /\ \A u \in UserIds :
          /\ totalPoints[u] = AmountsOf({p \in OkCalls : apu[p].userID = u})
          /\ totalPoints[u] = SprintRowsTotal(u)
    /\ \A fp \in Indices(focusPeriods) :
          SprintSubtotal(fp, focusPeriods[fp].UserID)
              = AmountsOf({p \in OkCalls : apu[p].periodID = fp})

\* A call failed at a sprint-points step or at commit, after its user row
\* had been saved inside the transaction.
C4_Witness ==
    \E p \in Calls :
        /\ apu[p].pc = "done"
        /\ apu[p].result \in {"failed to fetch sprint points",
                               "failed to create sprint points",
                               "failed to update sprint points", "commit failed"}
        /\ totalPoints[apu[p].userID] = SprintRowsTotal(apu[p].userID)

\* =============================================================== CreateStandup
\* StreakMilestones: streak length -> bonus points.
StreakMilestones == (7 :> 10) @@ (14 :> 25) @@ (30 :> 50) @@ (60 :> 100) @@ (90 :> 200)

\* if bonus, exists := StreakMilestones[streak.CurrentStreak]; exists
\* (BonusAtLeast pays the bonus of the last milestone reached instead.)
BonusAtLeast(current) ==
    LET reached == {k \in DOMAIN StreakMilestones : k <= current}
    IN IF reached = {} THEN 0
       ELSE StreakMilestones[CHOOSE k \in reached : \A j \in reached : j <= k]

BonusFor(current) ==
    IF current \in DOMAIN StreakMilestones THEN StreakMilestones[current] ELSE 0

\* A *time.Time: <<>> is nil, <<t>> points at t.
NilDate == <<>>

\* The UserStreak row CreateStandup creates when none exists.
NewStreak == [CurrentStreak |-> 0, LongestStreak |-> 0, TotalStandups |-> 0,
              LastStandupDate |-> NilDate]

\* The streak update of CreateStandup, for a check-in made at time today.
\* (CurrentStreakNoReset goes on counting after a missed day.)
CurrentStreakNoReset(streak, today) ==
    LET yesterday == StartOfDay(today) - TicksPerDay
    IN IF streak.LastStandupDate # NilDate
       THEN LET lastDate == StartOfDay(streak.LastStandupDate[1])
            IN IF lastDate <= yesterday THEN streak.CurrentStreak + 1
               ELSE streak.CurrentStreak
       ELSE 1

CurrentStreakAfter(streak, today) ==
    LET yesterday == StartOfDay(today) - TicksPerDay
    IN IF streak.LastStandupDate # NilDate
       THEN LET lastDate == StartOfDay(streak.LastStandupDate[1])
            IN IF lastDate = yesterday THEN streak.CurrentStreak + 1
               ELSE IF lastDate < yesterday THEN 1
               ELSE streak.CurrentStreak
       ELSE 1

UpdateStreak(streak, today) ==
    LET current == CurrentStreakAfter(streak, today)
    IN [CurrentStreak |-> current,
        LongestStreak |-> IF current > streak.LongestStreak THEN current
                          ELSE streak.LongestStreak,
        TotalStandups |-> streak.TotalStandups + 1,
        LastStandupDate |-> <<today>>]

\* DB.Where("user_id = ? AND guild_id = ? AND date >= ?", userID, guildID, todayStart)
StandupsSince(u, since) ==
    {i \in Indices(standups) :
        /\ standups[i].UserID = u
        /\ standups[i].GuildID = GuildOf(u)
        /\ standups[i].Date >= since}

\* The users who post standups in the model.
StandupUserIds == {1}

\* A goroutine serving /standup post; between calls it holds nothing.
IdlePoster == [pc |-> "idle", userID |-> 1, today |-> 0]

\* The model stops issuing check-ins once MaxCheckIns calls were accepted.
MayCheckIn ==
    Cardinality({i \in Indices(standups) : standups[i].Date >= 0})
        + Cardinality({p \in Posters : cs[p].pc = "tx"}) < MaxCheckIns

\* today := time.Now(); the existence check finds a standup of today and the
\* call returns the "already posted" error, or finds none and goes on.
CSCheck(p) ==
    /\ cs[p].pc = "idle"
    /\ MayCheckIn
    /\ \E u \in StandupUserIds :
         cs' = [cs EXCEPT ![p] =
                  IF FirstRow(StandupsSince(u, StartOfDay(now))) # NoRow
                  THEN IdlePoster
                  ELSE [IdlePoster EXCEPT !.pc = "tx", !.userID = u, !.today = now]]
    /\ UNCHANGED <<extVars, now, dbVars, posts, readers, writer, pending, apu, fs, sweepLog>>

\* The existence query itself fails: result.Error is not nil, which the code
\* treats like "no standup today".
CSCheckError(p) ==
    /\ cs[p].pc = "idle"
    /\ MayCheckIn
    /\ \E u \in StandupUserIds :
         cs' = [cs EXCEPT ![p] = [IdlePoster EXCEPT !.pc = "tx", !.userID = u,
                                                   !.today = now]]
    /\ UNCHANGED <<extVars, now, dbVars, posts, readers, writer, pending, apu, fs, sweepLog>>

\* The transaction: create the standup, get or create the streak, update and
\* save it, add 1 + bonus to the user's total.  Its first statement is a
\* write, so it holds the write lock from there to its commit.
CSTransaction(p) ==
    /\ cs[p].pc = "tx"
    /\ LET u == cs[p].userID
           old == IF streaks[u] = <<>> THEN NewStreak ELSE streaks[u][1]
           new == UpdateStreak(old, cs[p].today)
           bonus == BonusFor(new.CurrentStreak)
       IN /\ standups' = Append(standups, [UserID |-> u, GuildID |-> GuildOf(u),
                                           Date |-> cs[p].today])
          /\ streaks' = [streaks EXCEPT ![u] = <<new>>]
          /\ totalPoints' = [totalPoints EXCEPT ![u] = @ + 1 + bonus]
          /\ cs' = [cs EXCEPT ![p] = IdlePoster]
    /\ UNCHANGED <<extVars, now, sprintPoints, focusPeriods, leaderboardChannel, posts,
                   readers, writer, pending, apu, fs, sweepLog>>

\* (a failing transaction that keeps the standup it has created)
CSTransactionFailKeepsRow(p) ==
    /\ cs[p].pc = "tx"
    /\ standups' = Append(standups, [UserID |-> cs[p].userID,
                                      GuildID |-> GuildOf(cs[p].userID),
                                      Date |-> cs[p].today])
    /\ cs' = [cs EXCEPT ![p] = IdlePoster]
    /\ UNCHANGED <<extVars, now, totalPoints, sprintPoints, focusPeriods, streaks,
                   leaderboardChannel, posts, readers, writer, pending, apu, fs,
                   sweepLog>>

\* A statement of the transaction or its commit fails: everything is rolled
\* back and the error is returned.
CSTransactionFail(p) ==
    /\ cs[p].pc = "tx"
    /\ cs' = [cs EXCEPT ![p] = IdlePoster]
    /\ UNCHANGED <<extVars, now, dbVars, posts, readers, writer, pending, apu, fs, sweepLog>>

\* The wall clock advances; a call in flight spans at most one tick.
StandupHorizon == MaxStandupDay * TicksPerDay + (TicksPerDay - 1)

TickStandup ==
    /\ now < StandupHorizon
    /\ \A p \in Posters : cs[p].pc = "tx" => cs[p].today = now
    /\ now' = now + 1
    /\ UNCHANGED <<extVars, dbVars, posts, readers, writer, pending, apu, cs, fs, sweepLog>>

\* Streak lengths user 1 may have reached before the first day of the model
\* (one short of each milestone), by daily check-ins ending the day before.
PriorStreaks == {0} \cup {k - 1 : k \in DOMAIN StreakMilestones}

PriorStandups(k) ==
    [i \in 1..k |-> [UserID |-> 1, GuildID |-> GuildOf(1),
                     Date |-> (i - k - 1) * TicksPerDay]]

PriorPoints(k) ==
    LET reached == {m \in DOMAIN StreakMilestones : m <= k}
    IN k + SumOver(reached, [m \in reached |-> StreakMilestones[m]])

InitStandup ==
    /\ now = 0
    /\ \E k \in PriorStreaks :
         /\ standups = PriorStandups(k)
         /\ streaks = [u \in UserIds |->
                          IF u = 1 /\ k > 0
                          THEN <<[CurrentStreak |-> k, LongestStreak |-> k,
                                  TotalStandups |-> k,
                                  LastStandupDate |-> <<0 - TicksPerDay>>]>>
                          ELSE <<>>]
         /\ totalPoints = [u \in UserIds |-> IF u = 1 THEN PriorPoints(k) ELSE 0]
    /\ sprintPoints = <<>>
    /\ focusPeriods = <<PeriodRow(1, 0)>>
    /\ leaderboardChannel = [g \in Guilds |-> ""]
    /\ posts = <<>>
    /\ readers = {}
    /\ writer = {}
    /\ pending = NoPending
    /\ apu = <<>>
    /\ cs = [p \in Posters |-> IdlePoster]
    /\ fs = <<>>
    /\ sweepLog = <<>>
    /\ ExtIdle

NextStandupRace ==
    \/ \E p \in Posters : CSCheck(p) \/ CSTransaction(p)
    \/ TickStandup

NextStandup ==
    \/ \E p \in Posters :
          \/ CSCheck(p)
          \/ CSCheckError(p)
          \/ CSTransaction(p)
          \/ CSTransactionFail(p)
    \/ TickStandup

\* Check-ins racing one another, with no storage failure.
SpecStandupRace == InitStandup /\ [][NextStandupRace]_vars

\* Check-ins with storage failures.
SpecStandup == InitStandup /\ [][NextStandup]_vars

SameCheckInDay(i, j) ==
    /\ standups[i].UserID = standups[j].UserID
    /\ standups[i].GuildID = standups[j].GuildID
    /\ StartOfDay(standups[i].Date) = StartOfDay(standups[j].Date)

\* C2: there is at most one Standup row per (user, community, calendar day),
\* whatever the interleaving of the existence check and the transaction of
\* concurrent CreateStandup calls.
C2_OneCheckInPerDay ==
    \A i, j \in Indices(standups) : SameCheckInDay(i, j) => i = j

\* C5: a CreateStandup call issued when a standup of the current day exists
\* for the user returns the duplicate error (the goroutine is idle again
\* without entering the transaction) and changes no row.
C5_DuplicateRejected ==
    [][\A p \in Posters :
          (/\ cs[p].pc = "idle"
           /\ cs'[p] # cs[p]
           /\ StandupsSince(cs'[p].userID, StartOfDay(now)) # {})
          => (cs'[p].pc = "idle" /\ UNCHANGED dbVars)]_vars

\* The step commits a check-in: a Standup row is added.
CheckInCommitted == Len(standups') = Len(standups) + 1

\* C6: after each accepted check-in on a day later than the previous one,
\* currentStreak is 1 if there was no previous check-in or it was two or more
\* days earlier, and the previous currentStreak + 1 if it was the day before;
\* longestStreak is the larger of its previous value and the new
\* currentStreak, hence never below currentStreak.
C6_StreakContinuity ==
    [][CheckInCommitted =>
        LET row == standups'[Len(standups')]
            u == row.UserID
            day == StartOfDay(row.Date)
            fresh == streaks[u] = <<>> \/ streaks[u][1].LastStandupDate = <<>>
            prevCurrent == IF streaks[u] = <<>> THEN 0 ELSE streaks[u][1].CurrentStreak
            prevLongest == IF streaks[u] = <<>> THEN 0 ELSE streaks[u][1].LongestStreak
            prevDay == IF fresh THEN 0 ELSE StartOfDay(streaks[u][1].LastStandupDate[1])
            new == streaks'[u][1]
        IN /\ fresh => new.CurrentStreak = 1
           /\ (~fresh /\ prevDay + TicksPerDay = day)
                 => new.CurrentStreak = prevCurrent + 1
           /\ (~fresh /\ prevDay + TicksPerDay < day) => new.CurrentStreak = 1
           /\ new.LongestStreak
                 = IF new.CurrentStreak > prevLongest THEN new.CurrentStreak
                   ELSE prevLongest
           /\ new.LongestStreak >= new.CurrentStreak]_vars

\* Check-ins on days D, D+1 and then after a gap: current 1, longest 2.
C6_Witness ==
    /\ streaks[1] # <<>>
    /\ streaks[1][1].CurrentStreak = 1
    /\ streaks[1][1].LongestStreak = 2
    /\ streaks[1][1].TotalStandups = 3

\* C7: an accepted check-in adds exactly 1 + bonus to the user's lifetime
\* total, the bonus being 10, 25, 50, 100, 200 when the resulting
\* currentStreak is exactly 7, 14, 30, 60, 90 and 0 for any other length.
C7_MilestoneExact ==
    [][CheckInCommitted =>
        LET u == standups'[Len(standups')].UserID
            current == streaks'[u][1].CurrentStreak
            bonus == CASE current = 7 -> 10
                       [] current = 14 -> 25
                       [] current = 30 -> 50
                       [] current = 60 -> 100
                       [] current = 90 -> 200
                       [] OTHER -> 0
        IN totalPoints'[u] = totalPoints[u] + 1 + bonus]_vars

\* A streak of 6 went to 7 (1 + 10 points) and then to 8 (1 point).
C7_Witness ==
    /\ streaks[1] # <<>>
    /\ streaks[1][1].CurrentStreak = 8
    /\ streaks[1][1].TotalStandups = 8
    /\ totalPoints[1] = PriorPoints(6) + 11 + 1

\* ==================================================== focus periods and sweep
MaxPeriods == 3
MaxPosts == 1

\* Two /focus start interactions may be handled at a time.
Starters == {1, 2}

\* LIMIT passed by postSprintLeaderboard.
SprintLeaderboardLimit == 10

\* GetCurrentFocusPeriod: user_id = ? AND start_date <= now AND end_date >= now
GetCurrentFocusPeriod(u, t) ==
    FirstRow({i \in Indices(focusPeriods) :
                 /\ focusPeriods[i].UserID = u
                 /\ focusPeriods[i].StartDate <= t
                 /\ focusPeriods[i].EndDate >= t})

\* GetEndedPeriodsNeedingLeaderboard:
\* guild_id = ? AND end_date < now AND leaderboard_posted = false
\* (GetEndedPeriodsIgnoringPosted leaves the flag out of the filter.)
GetEndedPeriodsIgnoringPosted(g, t) ==
    {i \in Indices(focusPeriods) :
        focusPeriods[i].GuildID = g /\ focusPeriods[i].EndDate < t}

GetEndedPeriodsNeedingLeaderboard(g, t) ==
    {i \in Indices(focusPeriods) :
        /\ focusPeriods[i].GuildID = g
        /\ focusPeriods[i].EndDate < t
        /\ ~focusPeriods[i].LeaderboardPosted}

\* WHERE sp.guild_id = ? AND sp.start_date <= now AND sp.end_date >= now
\* ... HAVING sp.points > 0
\* (SprintRowsHalfOpen filters on end_date > now instead.)
SprintRowsHalfOpen(g, t) ==
    {i \in Indices(sprintPoints) :
        /\ sprintPoints[i].GuildID = g
        /\ sprintPoints[i].StartDate <= t
        /\ sprintPoints[i].EndDate > t
        /\ sprintPoints[i].Points > 0}

SprintRows(g, t) ==
    {i \in Indices(sprintPoints) :
        /\ sprintPoints[i].GuildID = g
        /\ sprintPoints[i].StartDate <= t
        /\ sprintPoints[i].EndDate >= t
        /\ sprintPoints[i].Points > 0}

\* The tasks of a focus period: WHERE focus_period_id = ?
TasksOf(fp) == {i \in Indices(tasks) : tasks[i].FocusPeriodID = fp}

\* MAX(t.completed_at) over the completed tasks in T: NULL when there is none.
MaxCompletedAt(T) ==
    IF T = {} THEN NilDate
    ELSE <<CHOOSE t \in {tasks[i].CompletedAt[1] : i \in T} :
               \A i \in T : tasks[i].CompletedAt[1] <= t>>

\* Position of a completed_at value in ORDER BY ... ASC: SQLite sorts NULL
\* before every value.
AscKey(ts) == IF ts = NilDate THEN -1 ELSE ts[1]

\* LEFT JOIN tasks t ON t.focus_period_id = sp.focus_period_id AND t.completed = 1
SprintRowCompletedAt(i) ==
    MaxCompletedAt({j \in TasksOf(sprintPoints[i].FocusPeriodID) : tasks[j].Completed})

\* ORDER BY sp.points DESC, completed_at ASC; rows equal in both in row order.
RECURSIVE Ranked(_)
Ranked(S) ==
    IF S = {} THEN <<>>
    ELSE LET best == CHOOSE i \in S : \A j \in S :
                        \/ sprintPoints[i].Points > sprintPoints[j].Points
                        \/ /\ sprintPoints[i].Points = sprintPoints[j].Points
                           /\ \/ AscKey(SprintRowCompletedAt(i))
                                     < AscKey(SprintRowCompletedAt(j))
                              \/ /\ AscKey(SprintRowCompletedAt(i))
                                        = AscKey(SprintRowCompletedAt(j))
                                 /\ i <= j
         IN <<best>> \o Ranked(S \ {best})

\* The rows the query returns: LIMIT ?
SprintLeaderboardRows(g, t, limit) ==
    LET r == Ranked(SprintRows(g, t))
    IN SubSeq(r, 1, IF Len(r) < limit THEN Len(r) ELSE limit)

\* GetSprintLeaderboard: one entry per returned row, ranked from 1.
GetSprintLeaderboard(g, t, limit) ==
    LET r == SprintLeaderboardRows(g, t, limit)
    IN [k \in 1..Len(r) |-> [UserID |-> sprintPoints[r[k]].UserID,
                             Points |-> sprintPoints[r[k]].Points,
                             Rank |-> k]]

\* ---------------------------------------------------------- handleFocusStart
IdleStarter == [pc |-> "idle", userID |-> 1]

\* /focus start requests still admitted.
MayStart ==
    Len(focusPeriods) + Cardinality({p \in Starters : fs[p].pc = "create"})
        < MaxPeriods

\* existing, err := GetCurrentFocusPeriod(user.ID); existing != nil answers
\* "Focus Period Already Active" and returns.
FSCheck(p) ==
    /\ fs[p].pc = "idle"
    /\ MayStart
    /\ \E u \in UserIds :
          fs' = [fs EXCEPT ![p] =
                    IF GetCurrentFocusPeriod(u, now) # NoRow THEN IdleStarter
                    ELSE [pc |-> "create", userID |-> u]]
    /\ UNCHANGED <<extVars, now, dbVars, posts, readers, writer, pending, apu, cs, sweepLog>>

\* CreateFocusPeriod: startDate = midnight of today, endDate = startDate +
\* FocusPeriodDuration.
FSCreate(p) ==
    /\ fs[p].pc = "create"
    /\ focusPeriods' = Append(focusPeriods,
                              PeriodRow(fs[p].userID, StartOfDay(now)))
    /\ fs' = [fs EXCEPT ![p] = IdleStarter]
    /\ UNCHANGED <<extVars, now, totalPoints, sprintPoints, standups, streaks,
                   leaderboardChannel, posts, readers, writer, pending, apu, cs,
                   sweepLog>>

\* DB.Create fails: "Failed to create your Focus Period."
FSFail(p) ==
    /\ fs[p].pc = "create"
    /\ fs' = [fs EXCEPT ![p] = IdleStarter]
    /\ UNCHANGED <<extVars, now, dbVars, posts, readers, writer, pending, apu, cs, sweepLog>>

\* ------------------------------------------------------------- point awards
\* AddPointsToUser as one committed transaction (its steps are serial, see
\* the ledger above): the user's total and the (period, user) sprint row.
AddPointsToUser(u, fp, amt) ==
    LET i == FirstRow({j \in Indices(sprintPoints) :
                          /\ sprintPoints[j].FocusPeriodID = fp
                          /\ sprintPoints[j].UserID = u})
        row == [FocusPeriodID |-> fp, UserID |-> u,
                GuildID |-> focusPeriods[fp].GuildID, Points |-> amt,
                StartDate |-> focusPeriods[fp].StartDate,
                EndDate |-> focusPeriods[fp].EndDate]
    IN /\ totalPoints' = [totalPoints EXCEPT ![u] = @ + amt]
       /\ sprintPoints' = IF i = NoRow THEN Append(sprintPoints, row)
                          ELSE [sprintPoints EXCEPT ![i].Points = @ + amt]

\* Points are awarded to the user's current period, with the period's window.
AwardPoints(u) ==
    /\ GetCurrentFocusPeriod(u, now) # NoRow
    /\ \E amt \in Amounts :
          LET fp == GetCurrentFocusPeriod(u, now)
          IN /\ SprintSubtotal(fp, u) + amt <= MaxAmount
             /\ AddPointsToUser(u, fp, amt)
    /\ UNCHANGED <<extVars, now, focusPeriods, standups, streaks, leaderboardChannel,
                   posts, readers, writer, pending, apu, cs, fs, sweepLog>>

\* ---------------------------------------------------- /config leaderboard-channel
Channels == {"c1"}

UpdateLeaderboardChannel(g) ==
    /\ \E ch \in Channels :
          leaderboardChannel' = [leaderboardChannel EXCEPT ![g] = ch]
    /\ sweepLog' = <<>>
    /\ UNCHANGED <<extVars, now, totalPoints, sprintPoints, focusPeriods, standups,
                   streaks, posts, readers, writer, pending, apu, cs, fs>>

\* ------------------------------------------------------ checkEndedFocusPeriods
\* GetAllGuildsWithActivePeriods: DISTINCT guild_id WHERE start_date <= now
\* AND end_date >= now
GetAllGuildsWithActivePeriods(t) ==
    {focusPeriods[i].GuildID : i \in {j \in Indices(focusPeriods) :
        focusPeriods[j].StartDate <= t /\ focusPeriods[j].EndDate >= t}}

\* Which operations of one sweep fail: the channel lookup, the ended-period
\* query, the leaderboard query, the Discord send, and MarkLeaderboardPosted
\* for the periods in marks.
NoFaults == [channel |-> FALSE, ended |-> FALSE, board |-> FALSE,
             send |-> FALSE, marks |-> {}]

\* Faults of the operations a sweep of guild g gets to execute.
SweepFaults(g) ==
    {[NoFaults EXCEPT !.channel = TRUE], [NoFaults EXCEPT !.ended = TRUE]}
    \cup {[NoFaults EXCEPT !.board = bd[1], !.send = bd[2], !.marks = m] :
             bd \in {<<FALSE, FALSE>>, <<TRUE, FALSE>>, <<FALSE, TRUE>>},
             m \in SUBSET GetEndedPeriodsNeedingLeaderboard(g, now)}

\* The last two entries of the log.
LastTwo(log) == IF Len(log) <= 2 THEN log ELSE SubSeq(log, Len(log) - 1, Len(log))

\* checkEndedPeriodsForGuild followed by postSprintLeaderboard: return on a
\* lookup error, an unset channel, a query error or no ended period; post the
\* sprint leaderboard of now unless its query fails or it is empty; then
\* MarkLeaderboardPosted for each period found, an error being only logged.
CheckEndedPeriodsForGuild(g, f) ==
    LET channel == leaderboardChannel[g]
        periods == GetEndedPeriodsNeedingLeaderboard(g, now)
        entries == GetSprintLeaderboard(g, now, SprintLeaderboardLimit)
        aborted == f.channel \/ channel = "" \/ f.ended \/ periods = {}
        posted == ~aborted /\ ~f.board /\ entries # <<>> /\ ~f.send
        marked == IF aborted THEN {} ELSE periods \ f.marks
        failed == \/ f.channel
                  \/ channel # "" /\ f.ended
                  \/ ~aborted /\ (f.board \/ f.marks \cap periods # {})
    IN /\ posted => Len(posts) < MaxPosts
       /\ posts' = IF posted
                   THEN Append(posts, [channel |-> channel, entries |-> entries])
                   ELSE posts
       /\ focusPeriods' =
             [i \in Indices(focusPeriods) |->
                 IF i \in marked
                 THEN [focusPeriods[i] EXCEPT !.LeaderboardPosted = TRUE]
                 ELSE focusPeriods[i]]
       /\ sweepLog' = LastTwo(Append(sweepLog,
                         [storage |-> IF failed THEN "error" ELSE "ok",
                          finalized |-> Cardinality(marked),
                          posted |-> posted]))
       /\ UNCHANGED <<now, totalPoints, sprintPoints, standups, streaks,
                      leaderboardChannel, readers, writer, pending, apu, cs, fs,
                      tasks, users, fc, cw, gu, est, lb, restVars>>

\* The scheduler's daily check: one sweep per guild with an active period.
CheckEndedFocusPeriods ==
    /\ \E g \in GetAllGuildsWithActivePeriods(now) :
          CheckEndedPeriodsForGuild(g, NoFaults)
    /\ UNCHANGED sched

CheckEndedFocusPeriodsFaulty ==
    /\ \E g \in GetAllGuildsWithActivePeriods(now) :
          \E f \in SweepFaults(g) \ {NoFaults} : CheckEndedPeriodsForGuild(g, f)
    /\ UNCHANGED sched

\* ------------------------------------------------------------------- time
SprintHorizon == FocusPeriodDuration + 1

\* A period ends between t and t + 1.
PeriodEndsAfter(t) ==
    \E i \in Indices(focusPeriods) :
        focusPeriods[i].EndDate < t + 1 /\ ~(focusPeriods[i].EndDate < t)

TickSprint ==
    /\ now < SprintHorizon
    /\ now' = now + 1
    /\ sweepLog' = IF PeriodEndsAfter(now) THEN <<>> ELSE sweepLog
    /\ UNCHANGED <<extVars, dbVars, posts, readers, writer, pending, apu, cs, fs>>

\* User 1 started a period on day 0, which is on its last day, and earned
\* 7 points in it.
PriorSubtotal == 7

InitSprint ==
    /\ now = FocusPeriodDuration - 1
    /\ focusPeriods = <<PeriodRow(1, 0)>>
    /\ totalPoints = [u \in UserIds |-> IF u = 1 THEN PriorSubtotal ELSE 0]
    /\ sprintPoints = <<[FocusPeriodID |-> 1, UserID |-> 1, GuildID |-> GuildOf(1),
                         Points |-> PriorSubtotal, StartDate |-> 0,
                         EndDate |-> FocusPeriodDuration]>>
    /\ standups = <<>>
    /\ streaks = [u \in UserIds |-> <<>>]
    /\ leaderboardChannel = [g \in Guilds |-> ""]
    /\ posts = <<>>
    /\ readers = {}
    /\ writer = {}
    /\ pending = NoPending
    /\ apu = <<>>
    /\ cs = <<>>
    /\ fs = [p \in Starters |-> IdleStarter]
    /\ sweepLog = <<>>
    /\ ExtIdle

NextSprint ==
    \/ \E p \in Starters : FSCheck(p) \/ FSCreate(p)
    \/ \E u \in UserIds : AwardPoints(u)
    \/ \E g \in Guilds : UpdateLeaderboardChannel(g)
    \/ CheckEndedFocusPeriods
    \/ TickSprint

NextSprintFaults ==
    \/ NextSprint
    \/ \E p \in Starters : FSFail(p)
    \/ CheckEndedFocusPeriodsFaulty

\* Handlers and sweeps without storage faults.
SpecSprint == InitSprint /\ [][NextSprint]_vars

\* Any storage operation or Discord send may fail.
SpecSprintFaults == InitSprint /\ [][NextSprintFaults]_vars

\* Sprint row i is among the rows the current-sprint query returns for its
\* guild at time now.
ReturnedBySprintQuery(i) ==
    \E k \in 1..Len(SprintLeaderboardRows(sprintPoints[i].GuildID, now,
                                          SprintLeaderboardLimit)) :
        SprintLeaderboardRows(sprintPoints[i].GuildID, now,
                              SprintLeaderboardLimit)[k] = i

C9_SweepPostsEndedPeriod ==
    [][\A P \in Indices(focusPeriods) :
          (~focusPeriods[P].LeaderboardPosted /\ focusPeriods'[P].LeaderboardPosted)
          => /\ Len(posts') = Len(posts) + 1
             /\ \A r \in Indices(sprintPoints) :
                   (sprintPoints[r].FocusPeriodID = P /\ sprintPoints[r].Points > 0)
                   => \E k \in DOMAIN posts'[Len(posts')].entries :
                         /\ posts'[Len(posts')].entries[k].UserID = sprintPoints[r].UserID
                         /\ posts'[Len(posts')].entries[k].Points = sprintPoints[r].Points]_vars

\* C10: each user has at most one focus period whose window contains now.
C10_OneActivePeriod ==
    \A u \in UserIds :
        \A i, j \in Indices(focusPeriods) :
            (/\ focusPeriods[i].UserID = u /\ focusPeriods[j].UserID = u
             /\ focusPeriods[i].StartDate <= now /\ now <= focusPeriods[i].EndDate
             /\ focusPeriods[j].StartDate <= now /\ now <= focusPeriods[j].EndDate)
            => i = j

\* ============================================================ goals of a period
MaxGoals == 3

\* Two /focus complete interactions may be handled at a time.
Completers == {1, 2}

\* Goal numbers a user may type: the positions in use and one beyond.
GoalNums == 1..(MaxGoals + 1)

\* tasks.points as found in the table: 0 is the column default, which is
\* what AddTask leaves; 5 is the value documented for a goal whose estimate
\* fell back to the default.
StoredPoints == {0, 5}

TaskRow(fp, position, points) ==
    [FocusPeriodID |-> fp, Position |-> position, Completed |-> FALSE,
     CompletedAt |-> NilDate, Points |-> points]

\* SELECT COALESCE(MAX(position), 0) ... WHERE focus_period_id = ?
MaxPosition(fp) ==
    IF TasksOf(fp) = {} THEN 0
    ELSE LET top == CHOOSE i \in TasksOf(fp) :
                       \A j \in TasksOf(fp) : tasks[j].Position <= tasks[i].Position
         IN tasks[top].Position

\* handleFocusAdd: the current period, then AddTask with the next position.
\* No point value is passed, the column keeps its default.
FocusAdd(u) ==
    /\ GetCurrentFocusPeriod(u, now) # NoRow
    /\ LET fp == GetCurrentFocusPeriod(u, now)
       IN /\ Cardinality(TasksOf(fp)) < MaxGoals
          /\ tasks' = Append(tasks, TaskRow(fp, MaxPosition(fp) + 1, 0))
    /\ UNCHANGED <<now, dbVars, posts, readers, writer, pending, apu, cs, fs,
                   sweepLog, users, fc, cw, gu, est, sched, lb, restVars>>

IdleCompleter == [pc |-> "idle", userID |-> 1, periodID |-> NoRow, position |-> 1,
                  taskID |-> NoRow, result |-> "none"]

\* WHERE focus_period_id = ? AND position = ?, First
TaskAt(fp, position) ==
    FirstRow({i \in TasksOf(fp) : tasks[i].Position = position})

\* CompleteTask up to its Save: the error returned, "" when the task was
\* found and is not completed.
CompleteTaskError(fp, position) ==
    IF TaskAt(fp, position) = NoRow THEN "task not found"
    ELSE IF tasks[TaskAt(fp, position)].Completed THEN "task is already completed"
    ELSE ""

\* handleFocusComplete: no current period answers "No Active Focus Period";
\* else CompleteTask fetches the task and returns its error, or goes on to
\* save it.
FCFetch(p) ==
    /\ fc[p].pc # "save"
    /\ \E u \in UserIds, n \in GoalNums :
          LET fp == GetCurrentFocusPeriod(u, now)
              call == [IdleCompleter EXCEPT !.userID = u, !.periodID = fp,
                                            !.position = n]
          IN fc' = [fc EXCEPT ![p] =
                IF fp = NoRow
                THEN [call EXCEPT !.pc = "done", !.result = "no active period"]
                ELSE IF CompleteTaskError(fp, n) # ""
                THEN [call EXCEPT !.pc = "done",
                                  !.result = CompleteTaskError(fp, n)]
                ELSE [call EXCEPT !.pc = "save", !.taskID = TaskAt(fp, n)]]
    /\ UNCHANGED <<now, dbVars, posts, readers, writer, pending, apu, cs, fs,
                   sweepLog, tasks, users, cw, gu, est, sched, lb, restVars>>

\* task.Completed = true; task.CompletedAt = &now; DB.Save(&task).  The
\* handler then answers "Goal Completed!"; it awards nothing.
FCSave(p) ==
    /\ fc[p].pc = "save"
    /\ tasks' = [tasks EXCEPT ![fc[p].taskID].Completed = TRUE,
                              ![fc[p].taskID].CompletedAt = <<now>>]
    /\ fc' = [fc EXCEPT ![p].pc = "done", ![p].result = "ok"]
    /\ UNCHANGED <<now, dbVars, posts, readers, writer, pending, apu, cs, fs,
                   sweepLog, users, cw, gu, est, sched, lb, restVars>>

\* DB.Save fails: "failed to update task".
FCSaveFail(p) ==
    /\ fc[p].pc = "save"
    /\ fc' = [fc EXCEPT ![p].pc = "done", ![p].result = "failed to update task"]
    /\ UNCHANGED <<now, dbVars, posts, readers, writer, pending, apu, cs, fs,
                   sweepLog, tasks, users, cw, gu, est, sched, lb, restVars>>

GoalsHorizon == TicksPerDay

TickGoals ==
    /\ now < GoalsHorizon
    /\ now' = now + 1
    /\ UNCHANGED <<dbVars, posts, readers, writer, pending, apu, cs, fs,
                   sweepLog, extVars>>

\* User 1 is in a period started today with one goal, whose stored point
\* value is one of StoredPoints.
InitGoals ==
    /\ now = 0
    /\ totalPoints = [u \in UserIds |-> 0]
    /\ sprintPoints = <<>>
    /\ focusPeriods = <<PeriodRow(1, 0)>>
    /\ standups = <<>>
    /\ streaks = [u \in UserIds |-> <<>>]
    /\ leaderboardChannel = [g \in Guilds |-> ""]
    /\ posts = <<>>
    /\ readers = {}
    /\ writer = {}
    /\ pending = NoPending
    /\ apu = <<>>
    /\ cs = <<>>
    /\ fs = <<>>
    /\ sweepLog = <<>>
    /\ \E pts \in StoredPoints : tasks = <<TaskRow(1, 1, pts)>>
    /\ users = <<>>
    /\ fc = [p \in Completers |-> IdleCompleter]
    /\ cw = <<>>
    /\ gu = <<>>
    /\ est = <<>>
    /\ sched = 0
    /\ lb = <<>>
    /\ RestIdle

NextGoals ==
    \/ \E u \in UserIds : FocusAdd(u)
    \/ \E p \in Completers : FCFetch(p) \/ FCSave(p) \/ FCSaveFail(p)
    \/ TickGoals

SpecGoals == InitGoals /\ [][NextGoals]_vars

\* The /focus complete interaction p finishes in this step.
Finishes(p) == fc[p].pc # "done" /\ fc'[p].pc = "done"

CompletedPointsOf(fp) ==
    LET done == {j \in TasksOf(fp) : tasks[j].Completed}
    IN SumOver(done, [i \in done |-> tasks[i].Points])

MaxStamp == 2

\* Times at which a goal was completed or a check-in was made.
Stamps == 1..MaxStamp

\* LIMIT ? of the queries.
Limits == {1, 2}

\* users.total_points of the users on the board.
BoardPoints == {0, 1, 2}

\* Three users: two of guild g1, one of guild g2.
BoardUsers ==
    <<[DiscordID |-> "d1", GuildID |-> "g1"],
      [DiscordID |-> "d2", GuildID |-> "g1"],
      [DiscordID |-> "d3", GuildID |-> "g2"]>>

BoardGuilds == {"g1", "g2"}

\* The elements of a set of numbers, ascending.
RECURSIVE Ascending(_)
Ascending(S) ==
    IF S = {} THEN <<>>
    ELSE LET least == CHOOSE x \in S : \A y \in S : x <= y
         IN <<least>> \o Ascending(S \ {least})

\* The rows of goals the users 1..k completed at the times goalTimes[u], each
\* in the user's period, which has the user's id.
RECURSIVE CompletedGoals(_, _)
CompletedGoals(goalTimes, k) ==
    IF k = 0 THEN <<>>
    ELSE LET at == Ascending(goalTimes[k])
         IN CompletedGoals(goalTimes, k - 1) \o
            [n \in 1..Len(at) |->
                [TaskRow(k, n, 0) EXCEPT !.Completed = TRUE, !.CompletedAt = <<at[n]>>]]

\* A sprint_points row per user with points.
RECURSIVE SprintRowsFor(_, _)
SprintRowsFor(points, k) ==
    IF k = 0 THEN <<>>
    ELSE SprintRowsFor(points, k - 1) \o
         (IF points[k] = 0 THEN <<>>
          ELSE <<[FocusPeriodID |-> k, UserID |-> k, GuildID |-> BoardUsers[k].GuildID,
                  Points |-> points[k], StartDate |-> 0,
                  EndDate |-> FocusPeriodDuration]>>)

\* LEFT JOIN focus_periods fp ON fp.user_id = u.id
\* LEFT JOIN tasks t ON t.focus_period_id = fp.id AND t.completed = 1
UserCompletedTasks(u) ==
    {i \in Indices(tasks) :
        /\ tasks[i].Completed
        /\ tasks[i].FocusPeriodID \in Indices(focusPeriods)
        /\ focusPeriods[tasks[i].FocusPeriodID].UserID = u}

\* WHERE u.guild_id = ? GROUP BY u.id HAVING u.total_points > 0
\* (AllTimeRowsAnyTotal leaves the HAVING clause out.)
AllTimeRowsAnyTotal(g) ==
    {u \in Indices(users) : users[u].GuildID = g}

AllTimeRows(g) ==
    {u \in Indices(users) : users[u].GuildID = g /\ totalPoints[u] > 0}

\* ORDER BY u.total_points DESC, completed_at ASC; rows equal in both in id
\* order.
RECURSIVE RankedUsers(_)
RankedUsers(S) ==
    IF S = {} THEN <<>>
    ELSE LET at(u) == AscKey(MaxCompletedAt(UserCompletedTasks(u)))
             best == CHOOSE u \in S : \A v \in S :
                        \/ totalPoints[u] > totalPoints[v]
                        \/ /\ totalPoints[u] = totalPoints[v]
                           /\ \/ at(u) < at(v)
                              \/ at(u) = at(v) /\ u <= v
         IN <<best>> \o RankedUsers(S \ {best})

\* LIMIT ?, then one entry per row with rank 1, 2, ...
GetAllTimeLeaderboard(g, limit) ==
    LET r == RankedUsers(AllTimeRows(g))
        n == IF Len(r) < limit THEN Len(r) ELSE limit
    IN [k \in 1..n |->
           [UserID |-> r[k],
            DiscordID |-> users[r[k]].DiscordID,
            Points |-> totalPoints[r[k]],
            TasksCount |-> Cardinality(UserCompletedTasks(r[k])),
            CompletedAt |-> MaxCompletedAt(UserCompletedTasks(r[k])),
            Rank |-> k]]

\* /leaderboard all-time
AllTimeLeaderboard ==
    \E g \in BoardGuilds, limit \in Limits :
        /\ lb' = [scope |-> "alltime", guild |-> g, limit |-> limit,
                  entries |-> GetAllTimeLeaderboard(g, limit)]
        /\ UNCHANGED <<now, dbVars, posts, readers, writer, pending, apu, cs, fs,
                       sweepLog, tasks, users, fc, cw, gu, est, sched, restVars>>

\* /leaderboard sprint
SprintLeaderboard ==
    \E g \in BoardGuilds, limit \in Limits :
        /\ lb' = [scope |-> "sprint", guild |-> g, limit |-> limit,
                  entries |-> GetSprintLeaderboard(g, now, limit)]
        /\ UNCHANGED <<now, dbVars, posts, readers, writer, pending, apu, cs, fs,
                       sweepLog, tasks, users, fc, cw, gu, est, sched, restVars>>

\* Each user is in a period started at 0 and has some lifetime total, all of
\* it earned in that period; the users of g1 have completed goals at some
\* times, and user 2 has checked in at most once.
InitBoard ==
    /\ now = MaxStamp
    /\ users = BoardUsers
    /\ focusPeriods = [u \in Indices(BoardUsers) |->
                          [UserID |-> u, GuildID |-> BoardUsers[u].GuildID,
                           StartDate |-> 0, EndDate |-> FocusPeriodDuration,
                           LeaderboardPosted |-> FALSE]]
    /\ \E points \in [Indices(BoardUsers) -> BoardPoints] :
          /\ totalPoints = points
          /\ sprintPoints = SprintRowsFor(points, Len(BoardUsers))
    /\ \E goalTimes \in [Indices(BoardUsers) -> SUBSET Stamps] :
          /\ goalTimes[3] = {}
          /\ tasks = CompletedGoals(goalTimes, Len(BoardUsers))
    /\ \E checkIns \in {{}} \cup {{t} : t \in Stamps} :
          LET at == Ascending(checkIns)
          IN standups = [n \in 1..Len(at) |->
                            [UserID |-> 2, GuildID |-> "g1", Date |-> at[n]]]
    /\ streaks = [u \in UserIds |-> <<>>]
    /\ leaderboardChannel = [g \in Guilds |-> ""]
    /\ posts = <<>>
    /\ readers = {}
    /\ writer = {}
    /\ pending = NoPending
    /\ apu = <<>>
    /\ cs = <<>>
    /\ fs = <<>>
    /\ sweepLog = <<>>
    /\ fc = <<>>
    /\ cw = <<>>
    /\ gu = <<>>
    /\ est = <<>>
    /\ sched = 0
    /\ lb = <<>>
    /\ RestIdle

NextBoard == AllTimeLeaderboard \/ SprintLeaderboard

SpecBoard == InitBoard /\ [][NextBoard]_vars

\* The users of guild g whose lifetime total is positive.
Qualifying(g) == {u \in Indices(users) : users[u].GuildID = g /\ totalPoints[u] > 0}

AtMost(a, b) == IF a < b THEN a ELSE b

\* C13: the all-time leaderboard of a community holds the users of that
\* community with a positive lifetime total and no one else, each once, by
\* lifetime total descending, cut to limit entries (the ones with the highest
\* totals), ranked 1, 2, ..., n.
C13_AllTimeLeaderboardExact ==
    (lb # <<>> /\ lb.scope = "alltime") =>
        LET e == lb.entries
        IN /\ Len(e) = AtMost(Cardinality(Qualifying(lb.guild)), lb.limit)
           /\ \A k \in 1..Len(e) :
                 /\ e[k].UserID \in Qualifying(lb.guild)
                 /\ e[k].DiscordID = users[e[k].UserID].DiscordID
                 /\ e[k].Points = totalPoints[e[k].UserID]
                 /\ e[k].Rank = k
           /\ \A k, l \in 1..Len(e) :
                 /\ k < l => e[k].Points >= e[l].Points
                 /\ k # l => e[k].UserID # e[l].UserID
           /\ \A u \in Qualifying(lb.guild) :
                 \/ \E k \in 1..Len(e) : e[k].UserID = u
                 \/ \A k \in 1..Len(e) : e[k].Points >= totalPoints[u]

\* A board of guild g1 cut to one entry while two users qualify, and guild
\* g2's user has points as well.
C13_Witness ==
    /\ lb # <<>>
    /\ lb.scope = "alltime"
    /\ lb.guild = "g1"
    /\ lb.limit = 1
    /\ Len(lb.entries) = 1
    /\ Cardinality(Qualifying("g1")) = 2
    /\ totalPoints[3] > 0
    /\ totalPoints[1] # totalPoints[2]

\* The times at which user u earned points: goal completions and check-ins.
QualifyingStamps(u) ==
    {tasks[i].CompletedAt[1] : i \in UserCompletedTasks(u)}
        \cup {standups[i].Date : i \in {j \in Indices(standups) : standups[j].UserID = u}}

LastQualifyingStamp(u) ==
    CHOOSE t \in QualifyingStamps(u) : \A x \in QualifyingStamps(u) : x <= t

\* C14: of two entries of a leaderboard with equal points, the one whose
\* last qualifying timestamp is earlier has the higher rank, whether the
\* users' points come from goals or from check-ins alone.
C14_TiesByEarliestTimestamp ==
    lb # <<>> =>
        \A k, l \in 1..Len(lb.entries) :
            LET a == lb.entries[k]
                b == lb.entries[l]
            IN (/\ a.Points = b.Points
                /\ QualifyingStamps(a.UserID) # {}
                /\ QualifyingStamps(b.UserID) # {}
                /\ LastQualifyingStamp(a.UserID) < LastQualifyingStamp(b.UserID))
               => a.Rank < b.Rank

\* =============================================================== user identity
Accounts == {"d1", "d2"}

Communities == {"gA", "gB"}

\* Interactions that may be resolving their user at a time.
Resolvers == {1, 2}

IdleResolver == [pc |-> "idle", discordID |-> "d1", guildID |-> "gA",
                 userID |-> NoRow, result |-> "none"]

\* WHERE discord_id = ? AND guild_id = ?
UserRows(d, g) ==
    {i \in Indices(users) : users[i].DiscordID = d /\ users[i].GuildID = g}

\* The unique index on users.discord_id admits a new row for account d.
DiscordIDFree(d) == \A i \in Indices(users) : users[i].DiscordID # d

\* GetOrCreateUser, the lookup: the row found is returned; ErrRecordNotFound
\* leads on to Create.
GUFetch(p) ==
    /\ gu[p].pc # "create"
    /\ \E d \in Accounts, g \in Communities :
          LET call == [IdleResolver EXCEPT !.discordID = d, !.guildID = g]
              row == FirstRow(UserRows(d, g))
          IN gu' = [gu EXCEPT ![p] =
                IF row = NoRow THEN [call EXCEPT !.pc = "create"]
                ELSE [call EXCEPT !.pc = "done", !.userID = row, !.result = "ok"]]
    /\ UNCHANGED <<now, dbVars, posts, readers, writer, pending, apu, cs, fs,
                   sweepLog, tasks, users, fc, cw, est, sched, lb, restVars>>

\* DB.Create(&user): the INSERT is refused when it breaks the unique index on
\* discord_id, and the call returns "failed to create user"; else the new row
\* is returned, with total_points at its default 0.
GUCreate(p) ==
    /\ gu[p].pc = "create"
    /\ IF DiscordIDFree(gu[p].discordID)
       THEN /\ users' = Append(users, [DiscordID |-> gu[p].discordID,
                                       GuildID |-> gu[p].guildID])
            /\ totalPoints' = Append(totalPoints, 0)
            /\ gu' = [gu EXCEPT ![p].pc = "done", ![p].userID = Len(users) + 1,
                                ![p].result = "ok"]
       ELSE /\ gu' = [gu EXCEPT ![p].pc = "done",
                                ![p].result = "failed to create user"]
            /\ UNCHANGED <<users, totalPoints>>
    /\ UNCHANGED <<now, sprintPoints, focusPeriods, standups, streaks,
                   leaderboardChannel, posts, readers, writer, pending, apu, cs,
                   fs, sweepLog, tasks, fc, cw, est, sched, lb, restVars>>

\* Points are added to the total of a user row.
AwardToRow ==
    /\ \E u \in Indices(users) :
          /\ totalPoints[u] < MaxAmount
          /\ totalPoints' = [totalPoints EXCEPT ![u] = @ + 1]
    /\ UNCHANGED <<now, sprintPoints, focusPeriods, standups, streaks,
                   leaderboardChannel, posts, readers, writer, pending, apu, cs,
                   fs, sweepLog, extVars>>

\* The users table is empty.
InitUsers ==
    /\ now = 0
    /\ totalPoints = <<>>
    /\ sprintPoints = <<>>
    /\ focusPeriods = <<>>
    /\ standups = <<>>
    /\ streaks = [u \in UserIds |-> <<>>]
    /\ leaderboardChannel = [g \in Guilds |-> ""]
    /\ posts = <<>>
    /\ readers = {}
    /\ writer = {}
    /\ pending = NoPending
    /\ apu = <<>>
    /\ cs = <<>>
    /\ fs = <<>>
    /\ sweepLog = <<>>
    /\ tasks = <<>>
    /\ users = <<>>
    /\ fc = <<>>
    /\ cw = <<>>
    /\ gu = [p \in Resolvers |-> IdleResolver]
    /\ est = <<>>
    /\ sched = 0
    /\ lb = <<>>
    /\ RestIdle

NextUsers ==
    \/ \E p \in Resolvers : GUFetch(p) \/ GUCreate(p)
    \/ AwardToRow

SpecUsers == InitUsers /\ [][NextUsers]_vars

\* C15: a GetOrCreateUser call for (account, community) returns the one row
\* of that pair, creating it when the account has a row in another community
\* only; it may fail only when the pair's row was created while it ran.
C15_UserPerAccountAndCommunity ==
    [][\A p \in Resolvers :
          (gu[p].pc # "done" /\ gu'[p].pc = "done") =>
              LET d == gu'[p].discordID
                  g == gu'[p].guildID
                  rows == {i \in Indices(users') :
                              users'[i].DiscordID = d /\ users'[i].GuildID = g}
              IN /\ Cardinality(rows) = 1
                 /\ gu'[p].result = "ok" => gu'[p].userID \in rows]_vars

\* ========================================================== difficulty estimator
MaxContent == 3

DefaultPoints == 5
MinPoints == 1
MaxPoints == 10

\* strconv.Atoi converts every run of at most this many digits (int is 64
\* bits wide); a longer run is out of range for it.
IntDigits == 18

DigitValue == [c \in {"0", "1", "7", "9"} |->
                 CASE c = "0" -> 0 [] c = "1" -> 1 [] c = "7" -> 7 [] c = "9" -> 9]

Digits == DOMAIN DigitValue

\* Characters of a reply: some digits, a blank and a letter.
Chars == Digits \cup {" ", "x"}

\* resp.Choices[0].Message.Content
Contents == UNION {[1..n -> Chars] : n \in 0..MaxContent}

\* strings.TrimSpace
RECURSIVE TrimLeft(_)
TrimLeft(c) == IF c # <<>> /\ Head(c) = " " THEN TrimLeft(Tail(c)) ELSE c

RECURSIVE TrimRight(_)
TrimRight(c) ==
    IF c # <<>> /\ c[Len(c)] = " " THEN TrimRight(SubSeq(c, 1, Len(c) - 1)) ELSE c

TrimSpace(c) == TrimRight(TrimLeft(c))

\* regexp \d+, FindString: the leftmost longest run of digits, "" if none.
RECURSIVE DigitPrefix(_)
DigitPrefix(c) ==
    IF c # <<>> /\ Head(c) \in Digits THEN <<Head(c)>> \o DigitPrefix(Tail(c))
    ELSE <<>>

RECURSIVE FindDigits(_)
FindDigits(c) ==
    IF c = <<>> THEN <<>>
    ELSE IF Head(c) \in Digits THEN DigitPrefix(c)
    ELSE FindDigits(Tail(c))

\* The number written by a run of digits.
RECURSIVE Atoi(_)
Atoi(ds) ==
    IF ds = <<>> THEN 0
    ELSE Atoi(SubSeq(ds, 1, Len(ds) - 1)) * 10 + DigitValue[ds[Len(ds)]]

\* extractPoints: the number and the error, "" for nil.
extractPoints(content) ==
    LET match == FindDigits(content)
    IN IF match = <<>> THEN [points |-> 0, err |-> "no number found in response"]
       ELSE IF Len(match) > IntDigits
            THEN [points |-> 0, err |-> "failed to convert to integer"]
            ELSE [points |-> Atoi(match), err |-> ""]

\* What the call to the API came to.
ApiOutcomes == {"no client", "api error", "no choices", "reply"}

\* Client.CalculatePoints for an outcome of the API call and, for a reply,
\* its content: the points and the error returned.
CalculatePoints(outcome, content) ==
    IF outcome = "no client" THEN [points |-> DefaultPoints, err |-> ""]
    ELSE IF outcome = "api error" THEN [points |-> 0, err |-> "OpenAI API error"]
    ELSE IF outcome = "no choices" THEN [points |-> 0, err |-> "no response from OpenAI"]
    ELSE LET r == extractPoints(TrimSpace(content))
         IN IF r.err # "" THEN [points |-> DefaultPoints, err |-> ""]
            ELSE IF r.points < MinPoints THEN [points |-> MinPoints, err |-> ""]
            ELSE IF r.points > MaxPoints THEN [points |-> MaxPoints, err |-> ""]
            ELSE [points |-> r.points, err |-> ""]

\* A goal is estimated.
Estimate ==
    /\ \E outcome \in ApiOutcomes, content \in Contents :
          /\ outcome # "reply" => content = <<>>
          /\ est' = [outcome |-> outcome, content |-> content,
                     returned |-> CalculatePoints(outcome, content)]
    /\ UNCHANGED <<now, dbVars, posts, readers, writer, pending, apu, cs, fs,
                   sweepLog, tasks, users, fc, cw, gu, sched, lb, restVars>>

InitEstimator ==
    /\ now = 0
    /\ totalPoints = [u \in UserIds |-> 0]
    /\ sprintPoints = <<>>
    /\ focusPeriods = <<>>
    /\ standups = <<>>
    /\ streaks = [u \in UserIds |-> <<>>]
    /\ leaderboardChannel = [g \in Guilds |-> ""]
    /\ posts = <<>>
    /\ readers = {}
    /\ writer = {}
    /\ pending = NoPending
    /\ apu = <<>>
    /\ cs = <<>>
    /\ fs = <<>>
    /\ sweepLog = <<>>
    /\ ExtIdle

NextEstimator == Estimate

SpecEstimator == InitEstimator /\ [][NextEstimator]_vars

\* The call failed: no client, an API error, no choice in the response, or a
\* reply without a number.
EstimateFailed ==
    \/ est.outcome # "reply"
    \/ \A k \in 1..Len(est.content) : est.content[k] \notin Digits

\* C16: whatever the API call comes to, CalculatePoints returns a number
\* from 1 to 10 and no error, and the default 5 when the call failed.
C16_EstimateInRangeOrDefault ==
    est # <<>> =>
        /\ est.returned.points \in MinPoints..MaxPoints
        /\ est.returned.err = ""
        /\ EstimateFailed => est.returned.points = DefaultPoints

\* ------------------------------------------------------ check-ins and the ledger
\* C17: a check-in committed by a user who is in a period adds 1 + bonus to
\* the user's lifetime total and the same amount to the sprint subtotal of
\* that period, so the user is on the sprint leaderboard as well.
C17_CheckInGoesThroughLedger ==
    [][\A u \in UserIds, fp \in Indices(focusPeriods) :
          (/\ CheckInCommitted
           /\ standups'[Len(standups')].UserID = u
           /\ fp = GetCurrentFocusPeriod(u, now))
          => /\ totalPoints'[u] >= totalPoints[u] + 1
             /\ SprintSubtotal(fp, u)' - SprintSubtotal(fp, u)
                   = totalPoints'[u] - totalPoints[u]
             /\ \E k \in 1..Len(GetSprintLeaderboard(GuildOf(u), now, SprintLeaderboardLimit)') :
                   GetSprintLeaderboard(GuildOf(u), now, SprintLeaderboardLimit)'[k].UserID = u]_vars

\* ===================================================== wins, challenges, totals
MaxTotal == 17

WinPoints == 2

\* int(10 * challenge.PointsMultiplier), for the default multiplier 1.5
ChallengeBase == 10
DefaultMultiplierTenths == 15
ChallengePoints == (ChallengeBase * DefaultMultiplierTenths) \div 10

\* /win interactions that may be handled at a time.
WinPosters == {1, 2}

IdleWinPoster == [pc |-> "idle", userID |-> 1, read |-> 0]

\* CreateWin up to the read of the user, for user u: the win is created, then
\* DB.Where("id = ?", userID).First(&user) reads the row, total included.
CreateWinRead(p, u) ==
    /\ cw[p].pc = "idle"
    /\ totalPoints[u] + WinPoints <= MaxTotal
    /\ cw' = [cw EXCEPT ![p] = [pc |-> "save", userID |-> u,
                                read |-> totalPoints[u]]]
    /\ UNCHANGED <<now, dbVars, posts, readers, writer, pending, apu, cs, fs,
                   sweepLog, tasks, users, fc, gu, est, sched, lb>>

\* The same, the table of wins left out of account.
CWFetch(p) ==
    /\ \E u \in UserIds : CreateWinRead(p, u)
    /\ UNCHANGED restVars

\* The read fails: the win is returned, no points are awarded.
CWFetchFail(p) ==
    /\ cw[p].pc = "idle"
    /\ cw' = [cw EXCEPT ![p] = IdleWinPoster]
    /\ UNCHANGED <<now, dbVars, posts, readers, writer, pending, apu, cs, fs,
                   sweepLog, tasks, users, fc, gu, est, sched, lb, restVars>>

\* user.TotalPoints += 2; DB.Save(&user): the row is written with the total
\* that was read plus 2.
CWSave(p) ==
    /\ cw[p].pc = "save"
    /\ totalPoints' = [totalPoints EXCEPT ![cw[p].userID] = cw[p].read + WinPoints]
    /\ cw' = [cw EXCEPT ![p] = IdleWinPoster]
    /\ UNCHANGED <<now, sprintPoints, focusPeriods, standups, streaks,
                   leaderboardChannel, posts, readers, writer, pending, apu, cs,
                   fs, sweepLog, tasks, users, fc, gu, est, sched, lb, restVars>>

\* DB.Save fails; its error is not looked at.
CWSaveFail(p) ==
    /\ cw[p].pc = "save"
    /\ cw' = [cw EXCEPT ![p] = IdleWinPoster]
    /\ UNCHANGED <<now, dbVars, posts, readers, writer, pending, apu, cs, fs,
                   sweepLog, tasks, users, fc, gu, est, sched, lb, restVars>>

\* ValidateChallengeCompletion, approved and sufficient: inside its
\* transaction the user is read and saved with the challenge's points added.
ValidateChallengeCompletion(u) ==
    /\ totalPoints[u] + ChallengePoints <= MaxTotal
    /\ totalPoints' = [totalPoints EXCEPT ![u] = @ + ChallengePoints]
    /\ UNCHANGED <<now, sprintPoints, focusPeriods, standups, streaks,
                   leaderboardChannel, posts, readers, writer, pending, apu, cs,
                   fs, sweepLog, extVars>>

\* User 1 is in a period started today; nobody has points.
InitAwards ==
    /\ now = 0
    /\ totalPoints = [u \in UserIds |-> 0]
    /\ sprintPoints = <<>>
    /\ focusPeriods = <<PeriodRow(1, 0)>>
    /\ standups = <<>>
    /\ streaks = [u \in UserIds |-> <<>>]
    /\ leaderboardChannel = [g \in Guilds |-> ""]
    /\ posts = <<>>
    /\ readers = {}
    /\ writer = {}
    /\ pending = NoPending
    /\ apu = <<>>
    /\ cs = [p \in Posters |-> IdlePoster]
    /\ fs = <<>>
    /\ sweepLog = <<>>
    /\ tasks = <<>>
    /\ users = <<>>
    /\ fc = <<>>
    /\ cw = [p \in WinPosters |-> IdleWinPoster]
    /\ gu = <<>>
    /\ est = <<>>
    /\ sched = 0
    /\ lb = <<>>
    /\ RestIdle

NextAwards ==
    \/ \E p \in WinPosters : CWFetch(p) \/ CWFetchFail(p) \/ CWSave(p) \/ CWSaveFail(p)
    \/ \E u \in UserIds : AwardPoints(u) \/ ValidateChallengeCompletion(u)
    \/ \E p \in Posters : CSCheck(p) \/ CSTransaction(p)

SpecAwards == InitAwards /\ [][NextAwards]_vars

\* C18: no step of the point-awarding operations, however they interleave,
\* lowers a user's lifetime total, and the total is never negative.
C18_TotalNeverDecreases ==
    [][\A u \in UserIds :
          /\ totalPoints'[u] >= totalPoints[u]
          /\ totalPoints'[u] >= 0]_vars

\* ------------------------------------------------- finalizing and the daily run
\* C19: a sweep sets LeaderboardPosted of a period only when it has sent a
\* leaderboard to the channel of the period's guild in that same sweep.
C19_FinalizedOnlyAfterPost ==
    [][\A P \in Indices(focusPeriods) :
          (~focusPeriods[P].LeaderboardPosted /\ focusPeriods'[P].LeaderboardPosted)
          => /\ Len(posts') = Len(posts) + 1
             /\ posts'[Len(posts')].channel
                   = leaderboardChannel[focusPeriods[P].GuildID]]_vars

MaxRuns == 2

\* runChecks at the run hour, as far as ended periods go: checkEndedFocusPeriods
\* sweeps every guild that GetAllGuildsWithActivePeriods returns (the one
\* guild, or none), with no storage error.
RunChecks ==
    /\ sched < MaxRuns
    /\ sched' = sched + 1
    /\ IF GetAllGuildsWithActivePeriods(now) = {}
       THEN UNCHANGED <<now, dbVars, posts, readers, writer, pending, apu, cs, fs,
                        sweepLog, tasks, users, fc, cw, gu, est, lb, restVars>>
       ELSE \E g \in GetAllGuildsWithActivePeriods(now) :
               CheckEndedPeriodsForGuild(g, NoFaults)

NextScheduler ==
    \/ \E p \in Starters : FSCheck(p) \/ FSCreate(p)
    \/ \E u \in UserIds : AwardPoints(u)
    \/ \E g \in Guilds : UpdateLeaderboardChannel(g)
    \/ RunChecks
    \/ TickSprint

SpecScheduler == InitSprint /\ [][NextScheduler]_vars

\* C20: when a daily run has completed without storage errors, no guild with
\* a leaderboard channel is left with a period that has ended and is not
\* finalized, whether or not the guild has an active period.
C20_DailyRunFinalizesAllEnded ==
    [][sched' = sched + 1 =>
          \A i \in Indices(focusPeriods') :
              ~(/\ leaderboardChannel'[focusPeriods'[i].GuildID] # ""
                /\ focusPeriods'[i].EndDate < now'
                /\ ~focusPeriods'[i].LeaderboardPosted)]_vars

\* ====================================================== the scheduler goroutine
MaxStarts == 2

\* The clock advances in steps, a whole number of them to the hour.
StepsPerHour == 2
HoursPerDay == 24

\* if hour == 9
RunHour == 9

HourOf(t) == (t \div StepsPerHour) % HoursPerDay
DayOf(t) == t \div (StepsPerHour * HoursPerDay)

\* The clock runs from 8:00 of day 0 to 10:00 of day 1.
FirstStep == 8 * StepsPerHour
LastStep == (HoursPerDay + RunHour + 1) * StepsPerHour

Schedulers == 1..MaxStarts

\* A Scheduler that Bot.Start has not created yet.
Unborn == [pc |-> "unborn", tick |-> FALSE, tickerOn |-> FALSE, next |-> 0,
           stopped |-> FALSE, afterStop |-> 0]

\* Schedulers created so far.
Born == {g \in Schedulers : sc.gor[g].pc # "unborn"}

\* Bot.Start: scheduler.New and Scheduler.Start.  The ticker is created with
\* a period of one hour and the goroutine is launched; it has yet to run.
\* The bot holds one scheduler at a time: a new one follows a Stop or a
\* restart of the process, which stops the old one as well.
SchedulerStart ==
    /\ \E g \in Schedulers :
          /\ g = Cardinality(Born) + 1
          /\ \A h \in Born : sc.gor[h].stopped
          /\ sc' = [sc EXCEPT !.gor[g] =
                       [pc |-> "init", tick |-> FALSE, tickerOn |-> TRUE,
                        next |-> sc.clock + StepsPerHour, stopped |-> FALSE,
                        afterStop |-> 0]]
    /\ UNCHANGED <<coreVars, exceptSc>>

\* Scheduler.Stop: s.ticker.Stop(), which leaves a tick already sent in the
\* channel, and close(s.stopChan).
SchedulerStop ==
    /\ \E g \in Born :
          /\ ~sc.gor[g].stopped
          /\ sc' = [sc EXCEPT !.gor[g].tickerOn = FALSE, !.gor[g].stopped = TRUE]
    /\ UNCHANGED <<coreVars, exceptSc>>

\* The goroutine starts runChecks: at once after its launch, or when its
\* select takes the case of the ticker channel, which it may take whenever a
\* tick is in the channel, the stop channel being closed or not.  runChecks
\* reads the hour and runs the daily sweeps if it is the run hour.
RunChecksBegin(g) ==
    /\ \/ sc.gor[g].pc = "init"
       \/ sc.gor[g].pc = "select" /\ sc.gor[g].tick
    /\ sc' = [sc EXCEPT
                 !.gor[g].pc = "running",
                 !.gor[g].tick = IF sc.gor[g].pc = "init" THEN @ ELSE FALSE,
                 !.gor[g].afterStop = IF sc.gor[g].stopped THEN @ + 1 ELSE @,
                 !.daily = IF HourOf(sc.clock) = RunHour
                           THEN Append(@, sc.clock) ELSE @]
    /\ UNCHANGED <<coreVars, exceptSc>>

\* runChecks returns; the goroutine is at its select.
RunChecksEnd(g) ==
    /\ sc.gor[g].pc = "running"
    /\ sc' = [sc EXCEPT !.gor[g].pc = "select"]
    /\ UNCHANGED <<coreVars, exceptSc>>

\* The select takes the case of the closed stop channel; the goroutine returns.
SchedulerExit(g) ==
    /\ sc.gor[g].pc = "select"
    /\ sc.gor[g].stopped
    /\ sc' = [sc EXCEPT !.gor[g].pc = "exited"]
    /\ UNCHANGED <<coreVars, exceptSc>>

\* Time passes.  A running ticker whose hour is up sends a tick; the channel
\* holds one tick, a further one is dropped.  A goroutine that has been
\* launched, and a runChecks that has begun, take less than a step of the clock.
ClockStep ==
    /\ sc.clock < LastStep
    /\ \A g \in Schedulers : sc.gor[g].pc \notin {"init", "running"}
    /\ sc' = [sc EXCEPT
                 !.clock = @ + 1,
                 !.gor = [g \in Schedulers |->
                            IF sc.gor[g].tickerOn /\ sc.gor[g].next = sc.clock + 1
                            THEN [sc.gor[g] EXCEPT !.tick = TRUE,
                                                   !.next = @ + StepsPerHour]
                            ELSE sc.gor[g]]]
    /\ UNCHANGED <<coreVars, exceptSc>>

\* The bot has not been started; it is 8 o'clock.
InitTicker ==
    /\ CoreIdle
    /\ ExceptScIdle
    /\ sc = [clock |-> FirstStep, gor |-> [g \in Schedulers |-> Unborn],
             daily |-> <<>>]

NextTicker ==
    \/ SchedulerStart
    \/ SchedulerStop
    \/ \E g \in Schedulers : RunChecksBegin(g) \/ RunChecksEnd(g) \/ SchedulerExit(g)
    \/ ClockStep

SpecTicker == InitTicker /\ [][NextTicker]_vars

\* C21: the daily sweeps run only in the run hour and at most once on a
\* calendar day, whatever the order of starts, ticks and stops.
C21_DailyOncePerDay ==
    /\ \A k \in 1..Len(sc.daily) : HourOf(sc.daily[k]) = RunHour
    /\ \A k, l \in 1..Len(sc.daily) :
          k # l => DayOf(sc.daily[k]) # DayOf(sc.daily[l])

\* C30: once Stop has returned, the goroutine starts no runChecks: a tick
\* left in the ticker channel is not taken in place of the stop signal.
C30_NoRunAfterStop ==
    \A g \in Schedulers : sc.gor[g].afterStop = 0

\* ============================================================ one runChecks
MaxDayOfMonth == 2

\* The sweeps of the run hour, in the order runChecks calls them, and the two
\* calls of checkExpiredChallenges, the last of them.
DailySweeps == <<"checkDailyReminders", "checkInsufficientTasks",
                 "checkEndedFocusPeriods", "checkStandupReminders",
                 "checkChallengeReminders", "CheckAndFailExpiredChallenges",
                 "CleanupExpiredRequests">>

\* if now.Day() == 1 && hour == 10
MonthlyDay == 1
MonthlyHour == 10

Hours == 0..(HoursPerDay - 1)
DaysOfMonth == 1..MaxDayOfMonth
SweepOutcomes == {"ok", "error"}

\* (runChecks stopping at the first sweep that meets an error)
SweepsFromUntilError(k, outcome) ==
    LET failed == {j \in k..Len(DailySweeps) : outcome[j] = "error"}
        last == IF failed = {} THEN Len(DailySweeps)
                ELSE CHOOSE j \in failed : \A i \in failed : j <= i
    IN  [j \in 1..(last - k + 1) |-> DailySweeps[k + j - 1]]

\* The sweeps started from the k-th on.  No sweep returns a value: an error
\* is logged inside it and the caller goes on to the next call.
SweepsFrom(k, outcome) ==
    [j \in 1..(Len(DailySweeps) - k + 1) |-> DailySweeps[k + j - 1]]

\* What one runChecks starts at the given hour and day of the month.
SweepsStarted(hour, day, outcome) ==
    (IF hour = RunHour THEN SweepsFrom(1, outcome) ELSE <<>>)
    \o (IF day = MonthlyDay /\ hour = MonthlyHour
        THEN <<"postMonthlyWinsSummary">> ELSE <<>>)

\* runChecks, at some hour of some day of the month; each sweep it may start
\* meets an error or does not.
RunChecksOnce ==
    /\ rc.started = <<"none">>
    /\ rc' = [rc EXCEPT !.started = SweepsStarted(rc.hour, rc.day, rc.outcome)]
    /\ UNCHANGED <<coreVars, exceptRc>>

InitRunChecks ==
    /\ CoreIdle
    /\ ExceptRcIdle
    /\ \E hour \in Hours, day \in DaysOfMonth,
          outcome \in [1..Len(DailySweeps) -> SweepOutcomes] :
          rc = [hour |-> hour, day |-> day, outcome |-> outcome,
                started |-> <<"none">>]

NextRunChecks == RunChecksOnce

SpecRunChecks == InitRunChecks /\ [][NextRunChecks]_vars

\* C22: at the run hour every sweep of runChecks is started, in order,
\* whatever the outcome of the sweeps before it.
C22_EverySweepStarted ==
    (rc.started # <<"none">> /\ rc.hour = RunHour) => rc.started = DailySweeps

\* A run at the run hour whose first sweep failed and whose last was started.
C22_Witness ==
    /\ rc.hour = RunHour
    /\ rc.outcome[1] = "error"
    /\ rc.started[Len(rc.started)] = "CleanupExpiredRequests"

\* ====================================================== check-in atomicity
\* The check-ins made since the model's first day.
NewStandups == {i \in Indices(standups) : standups[i].Date >= 0}

Adders == {1, 2}

IdleAdder == [pc |-> "idle", periodID |-> NoRow, maxPosition |-> 0]

\* The model stops adding goals to a period that has MaxGoals of them.
MayAdd(fp) ==
    Cardinality(TasksOf(fp))
        + Cardinality({p \in Adders : adds[p].pc = "create" /\ adds[p].periodID = fp})
        < MaxGoals

\* var maxPosition int; SELECT COALESCE(MAX(position), 0) ... Scan(&maxPosition)
ATScan(p) ==
    /\ adds[p].pc = "idle"
    /\ \E fp \in Indices(focusPeriods) :
          /\ MayAdd(fp)
          /\ adds' = [adds EXCEPT ![p] = [pc |-> "create", periodID |-> fp,
                                      maxPosition |-> MaxPosition(fp)]]
    /\ UNCHANGED <<coreVars, exceptAdds>>

\* The query fails: its error is not looked adds and maxPosition keeps its
\* zero value.
ATScanFail(p) ==
    /\ adds[p].pc = "idle"
    /\ \E fp \in Indices(focusPeriods) :
          /\ MayAdd(fp)
          /\ adds' = [adds EXCEPT ![p] = [pc |-> "create", periodID |-> fp,
                                      maxPosition |-> 0]]
    /\ UNCHANGED <<coreVars, exceptAdds>>

\* DB.Create(&task) with Position: maxPosition + 1.  The table has no unique
\* index on (focus_period_id, position).
ATCreate(p) ==
    /\ adds[p].pc = "create"
    /\ tasks' = Append(tasks, TaskRow(adds[p].periodID, adds[p].maxPosition + 1, 0))
    /\ adds' = [adds EXCEPT ![p] = IdleAdder]
    /\ UNCHANGED <<now, dbVars, posts, readers, writer, pending, apu, cs, fs,
                   sweepLog, users, fc, cw, gu, est, sched, lb, exceptAdds>>

\* DB.Create fails: "failed to create task".
ATCreateFail(p) ==
    /\ adds[p].pc = "create"
    /\ adds' = [adds EXCEPT ![p] = IdleAdder]
    /\ UNCHANGED <<coreVars, exceptAdds>>

\* Each user is in a period; neither has a goal yet.
InitAddTask ==
    /\ now = 0
    /\ totalPoints = [u \in UserIds |-> 0]
    /\ sprintPoints = <<>>
    /\ focusPeriods = <<PeriodRow(1, 0), PeriodRow(2, 0)>>
    /\ standups = <<>>
    /\ streaks = [u \in UserIds |-> <<>>]
    /\ leaderboardChannel = [g \in Guilds |-> ""]
    /\ posts = <<>>
    /\ readers = {}
    /\ writer = {}
    /\ pending = NoPending
    /\ apu = <<>>
    /\ cs = <<>>
    /\ fs = <<>>
    /\ sweepLog = <<>>
    /\ tasks = <<>>
    /\ users = <<>>
    /\ fc = <<>>
    /\ cw = <<>>
    /\ gu = <<>>
    /\ est = <<>>
    /\ sched = 0
    /\ lb = <<>>
    /\ adds = [p \in Adders |-> IdleAdder]
    /\ ExceptAddsIdle

NextAddTask ==
    \E p \in Adders : ATScan(p) \/ ATScanFail(p) \/ ATCreate(p) \/ ATCreateFail(p)

\* AddTask calls with storage failures.
SpecAddTask == InitAddTask /\ [][NextAddTask]_vars

NextAddTaskRace ==
    \E p \in Adders : ATScan(p) \/ ATCreate(p)

\* AddTask calls racing one another, with no storage failure.
SpecAddTaskRace == InitAddTask /\ [][NextAddTaskRace]_vars

\* C24: within a period the goal positions are 1-based and pairwise
\* distinct, whatever the interleaving of the AddTask calls for it.
C24_PositionsDistinct ==
    /\ \A i \in Indices(tasks) : tasks[i].Position >= 1
    /\ \A i, j \in Indices(tasks) :
          (tasks[i].FocusPeriodID = tasks[j].FocusPeriodID
              /\ tasks[i].Position = tasks[j].Position) => i = j

\* ============================================================ challenges
MaxChallenges == 2
MaxChallengeDays == 2
MaxSweeps == 2

ChallengeIds == 1..MaxChallenges

\* Every challenge of the model has users 1 and 2 as its participants.
Members == UserIds

\* CreateChallenge: endDate := startDate + days * 24h, from the start of day 0.
EndDates == {days * TicksPerDay : days \in 1..MaxChallengeDays}

ParticipantOpen == {"active", "pending_validation"}

\* UPDATE challenge_participants SET status = 'failed'
\* WHERE challenge_id = ? AND status IN ('active', 'pending_validation')
FailIncomplete(parts) ==
    [u \in Members |-> IF parts[u] \in ParticipantOpen THEN "failed" ELSE parts[u]]

\* What one statement inside the sweep's transaction may do: nothing fails,
\* the UPDATE fails, the two COUNTs fail, or the Save of the challenge
\* fails.  Only the last error is looked at.
ExpiryFaults == {"ok", "update fails", "count fails", "save fails"}

\* The transaction of the sweep for challenge c, on the tables st.
SweepTransaction(st, c, fault) ==
    LET parts == IF fault = "update fails" THEN st.participants[c]
                 ELSE FailIncomplete(st.participants[c])
        totalCount == IF fault = "count fails" THEN 0 ELSE Cardinality(Members)
        completedCount ==
            IF fault = "count fails" THEN 0
            ELSE Cardinality({u \in Members : parts[u] = "completed"})
        status == IF completedCount = totalCount THEN "completed" ELSE "failed"
    IN  [st EXCEPT !.participants[c] = parts, !.challenges[c].Status = status]

\* WHERE status = 'active' AND end_date < now
ExpiredActive(st, t) ==
    {c \in ChallengeIds :
        st.challenges[c].Status = "active" /\ st.challenges[c].EndDate < t}

\* The loop of the sweep over the challenges found, from the c-th id on: each
\* in a transaction of its own, the first failing one ends the sweep.
RECURSIVE SweepLoop(_, _, _, _)
SweepLoop(st, found, c, faults) ==
    IF c > MaxChallenges THEN [st EXCEPT !.result = "ok"]
    ELSE IF c \notin found THEN SweepLoop(st, found, c + 1, faults)
    ELSE IF faults[c] = "save fails" THEN [st EXCEPT !.result = "error"]
    ELSE SweepLoop(SweepTransaction(st, c, faults[c]), found, c + 1, faults)

\* CheckAndFailExpiredChallenges, with storage failures.
CheckAndFailExpiredChallenges(faults) ==
    /\ chal.sweeps < MaxSweeps
    /\ chal' = [SweepLoop(chal, ExpiredActive(chal, now), 1, faults)
                   EXCEPT !.sweeps = chal.sweeps + 1]
    /\ UNCHANGED <<coreVars, exceptChal>>

NoExpiryFault == [c \in ChallengeIds |-> "ok"]

\* SubmitChallengeCompletion by participant u of challenge c.
SubmitChallengeCompletion(c, u) ==
    /\ chal.participants[c][u] = "active"
    /\ chal' = [chal EXCEPT !.participants[c][u] = "pending_validation"]
    /\ UNCHANGED <<coreVars, exceptChal>>

\* ValidateChallengeCompletion by the other participant, handled alone:
\* an approval completes the participant and awards the points, a rejection
\* moves the participant back to active.
ValidateAlone(c, u, approved) ==
    /\ chal.participants[c][u] = "pending_validation"
    /\ totalPoints[u] + ChallengePoints <= MaxTotal
    /\ chal' = [chal EXCEPT !.participants[c][u] =
                                IF approved THEN "completed" ELSE "active",
                            !.credits[c][u] = IF approved THEN @ + 1 ELSE @]
    /\ totalPoints' = [totalPoints EXCEPT
                          ![u] = IF approved THEN @ + ChallengePoints ELSE @]
    /\ UNCHANGED <<now, sprintPoints, focusPeriods, standups, streaks,
                   leaderboardChannel, posts, readers, writer, pending, apu, cs,
                   fs, sweepLog, tasks, users, fc, cw, gu, est, sched, lb,
                   exceptChal>>

ExpiryHorizon == MaxChallengeDays * TicksPerDay + 1

TickExpiry ==
    /\ now < ExpiryHorizon
    /\ now' = now + 1
    /\ UNCHANGED <<dbVars, posts, readers, writer, pending, apu, cs, fs,
                   sweepLog, tasks, users, fc, cw, gu, est, sched, lb, restVars>>

\* The challenges have been created on day 0, each for some number of days.
InitExpiry ==
    /\ CoreIdle
    /\ ExceptChalIdle
    /\ \E ends \in [ChallengeIds -> EndDates] :
          chal = [challenges |-> [c \in ChallengeIds |->
                                     [Status |-> "active", EndDate |-> ends[c]]],
                  participants |-> [c \in ChallengeIds |->
                                       [u \in Members |-> "active"]],
                  credits |-> [c \in ChallengeIds |-> [u \in Members |-> 0]],
                  sweeps |-> 0, result |-> "none", vc |-> <<>>]

NextExpiryClean ==
    \/ CheckAndFailExpiredChallenges(NoExpiryFault)
    \/ \E c \in ChallengeIds, u \in Members :
          \/ SubmitChallengeCompletion(c, u)
          \/ \E approved \in BOOLEAN : ValidateAlone(c, u, approved)
    \/ TickExpiry

\* The expiry sweep with no storage failure.
SpecExpiryClean == InitExpiry /\ [][NextExpiryClean]_vars

NextExpiry ==
    \/ \E faults \in [ChallengeIds -> ExpiryFaults] :
          CheckAndFailExpiredChallenges(faults)
    \/ \E c \in ChallengeIds, u \in Members :
          \/ SubmitChallengeCompletion(c, u)
          \/ \E approved \in BOOLEAN : ValidateAlone(c, u, approved)
    \/ TickExpiry

\* The expiry sweep with storage failures.
SpecExpiry == InitExpiry /\ [][NextExpiry]_vars

\* C25: after an expiry sweep that returned no error, no challenge whose end
\* has passed is active; each one the sweep found is failed, or completed if
\* all its participants were completed, and its participants that were
\* active or awaiting validation are failed.
C25_SweepFailsExpired ==
    [][(chal'.sweeps = chal.sweeps + 1 /\ chal'.result = "ok") =>
          \A c \in ChallengeIds :
              /\ chal.challenges[c].EndDate < now =>
                     chal'.challenges[c].Status # "active"
              /\ c \in ExpiredActive(chal, now) =>
                     /\ chal'.challenges[c].Status =
                            IF \A u \in Members :
                                   chal.participants[c][u] = "completed"
                            THEN "completed" ELSE "failed"
                     /\ \A u \in Members :
                            chal.participants[c][u] \in ParticipantOpen =>
                                chal'.participants[c][u] = "failed"]_vars

\* ===================================================== GetOrCreateSprintPoints
\* Two calls may be in flight at a time.
Getters == {1, 2}

IdleGetter == [pc |-> "idle", userID |-> 1, periodID |-> 1, result |-> "none"]

\* The sprint points rows of (period fp, user u), in the committed table.
SprintRowsOf(fp, u) ==
    {i \in Indices(sprintPoints) :
        sprintPoints[i].FocusPeriodID = fp /\ sprintPoints[i].UserID = u}

\* DB.Where("focus_period_id = ? AND user_id = ?", ...).First(&sp), outside
\* any transaction: the row is returned, or none is found.
GSPFetch(p) ==
    /\ gsp[p].pc = "idle"
    /\ \E u \in UserIds :
         \E fp \in PeriodIdsOf(u) :
            gsp' = [gsp EXCEPT ![p] =
                      IF SprintRowsOf(fp, u) # {}
                      THEN [pc |-> "done", userID |-> u, periodID |-> fp,
                            result |-> "found"]
                      ELSE [pc |-> "create", userID |-> u, periodID |-> fp,
                            result |-> "none"]]
    /\ UNCHANGED <<coreVars, exceptGsp>>

\* gorm.ErrRecordNotFound: DB.Create(&sp) with Points 0 and the window passed
\* by the caller, a statement of its own.  It needs the write lock and, to
\* commit, that no transaction is reading.  The table has no unique index on
\* (focus_period_id, user_id).
GSPCreate(p) ==
    /\ gsp[p].pc = "create"
    /\ writer = {}
    /\ readers = {}
    /\ LET fp == focusPeriods[gsp[p].periodID]
           row == [FocusPeriodID |-> gsp[p].periodID, UserID |-> gsp[p].userID,
                   GuildID |-> fp.GuildID, Points |-> 0,
                   StartDate |-> fp.StartDate, EndDate |-> fp.EndDate]
       IN sprintPoints' = Append(sprintPoints, row)
    /\ gsp' = [gsp EXCEPT ![p].pc = "done", ![p].result = "created"]
    /\ UNCHANGED <<now, totalPoints, focusPeriods, standups, streaks,
                   leaderboardChannel, posts, readers, writer, pending, apu, cs,
                   fs, sweepLog, tasks, users, fc, cw, gu, est, sched, lb,
                   exceptGsp>>

\* DB.Create fails (I/O error, SQLITE_BUSY): "failed to create sprint points".
GSPCreateFail(p) ==
    /\ gsp[p].pc = "create"
    /\ gsp' = [gsp EXCEPT ![p].pc = "done",
                          ![p].result = "failed to create sprint points"]
    /\ UNCHANGED <<coreVars, exceptGsp>>

InitSprintRows ==
    /\ now = FocusPeriodDuration + TicksPerDay + 1
    /\ totalPoints = [u \in UserIds |-> 0]
    /\ sprintPoints = <<>>
    /\ focusPeriods = LedgerPeriods
    /\ standups = <<>>
    /\ streaks = [u \in UserIds |-> <<>>]
    /\ leaderboardChannel = [g \in Guilds |-> ""]
    /\ posts = <<>>
    /\ readers = {}
    /\ writer = {}
    /\ pending = NoPending
    /\ apu = [p \in Calls |-> IdleCall]
    /\ cs = <<>>
    /\ fs = <<>>
    /\ sweepLog = <<>>
    /\ tasks = <<>>
    /\ users = <<>>
    /\ fc = <<>>
    /\ cw = <<>>
    /\ gu = <<>>
    /\ est = <<>>
    /\ sched = 0
    /\ lb = <<>>
    /\ gsp = [p \in Getters |-> IdleGetter]
    /\ ExceptGspIdle

NextSprintRows ==
    \/ NextLedger
    \/ \E p \in Getters : GSPFetch(p) \/ GSPCreate(p) \/ GSPCreateFail(p)

SpecSprintRows == InitSprintRows /\ [][NextSprintRows]_vars

\* C26: there is at most one SprintPoints row per (period, user), whatever
\* the interleaving of AddPointsToUser and GetOrCreateSprintPoints calls, and
\* the window cached in a row is the one passed when it was created.
C26_OneRowPerPeriodAndUser ==
    /\ \A i, j \in Indices(sprintPoints) :
          (sprintPoints[i].FocusPeriodID = sprintPoints[j].FocusPeriodID
              /\ sprintPoints[i].UserID = sprintPoints[j].UserID) => i = j
    /\ \A i \in Indices(sprintPoints) :
          /\ sprintPoints[i].StartDate =
                 focusPeriods[sprintPoints[i].FocusPeriodID].StartDate
          /\ sprintPoints[i].EndDate =
                 focusPeriods[sprintPoints[i].FocusPeriodID].EndDate

\* ================================================== concurrent completions
\* C27: two CompleteTask calls for the same goal never both succeed: one
\* returns the completed task, the other fails as already completed.
C27_OneCompletionPerGoal ==
    \A p, q \in Completers :
        (/\ p # q
         /\ fc[p].pc = "done" /\ fc[p].result = "ok"
         /\ fc[q].pc = "done" /\ fc[q].result = "ok")
            => fc[p].taskID # fc[q].taskID

\* =============================================== ValidateChallengeCompletion
\* The /challenge validate interactions of the model, each handled once.
ValidationCalls == {1, 2}

\* The participants of a challenge whose completions are validated: users 1
\* and 2, who submit, and a third participant.
ValidateMembers == UserIds \cup {3}

IdleValidation == [pc |-> "idle", challengeID |-> 1, validatorID |-> 1,
                   targetUserID |-> 1, approved |-> FALSE, result |-> "none"]

\* The checks made before the transaction: the participant row is read and
\* must be awaiting validation, the validator must be a participant and not
\* the target.
ValidateError(c, v, u) ==
    IF chal.participants[c][u] # "pending_validation"
    THEN "this participant hasn't submitted completion yet"
    ELSE IF v \notin DOMAIN chal.participants[c]
    THEN "you're not a participant in this challenge"
    ELSE IF v = u THEN "you can't validate your own submission"
    ELSE ""

VCFetch(p) ==
    /\ chal.vc[p].pc = "idle"
    /\ \E c \in ChallengeIds, v \in ValidateMembers, u \in UserIds,
          approved \in BOOLEAN :
          LET call == [IdleValidation EXCEPT !.challengeID = c, !.validatorID = v,
                                             !.targetUserID = u,
                                             !.approved = approved]
          IN chal' = [chal EXCEPT !.vc[p] =
                IF ValidateError(c, v, u) # ""
                THEN [call EXCEPT !.pc = "done", !.result = ValidateError(c, v, u)]
                ELSE [call EXCEPT !.pc = "tx"]]
    /\ UNCHANGED <<coreVars, exceptChal>>

\* The transaction.  An approval is recorded and counted; one is enough, so
\* the participant read before the transaction is saved as completed and the
\* points are added to the user's total.  A rejection saves it as active.
VCTransaction(p) ==
    /\ chal.vc[p].pc = "tx"
    /\ LET c == chal.vc[p].challengeID
           u == chal.vc[p].targetUserID
       IN IF chal.vc[p].approved
          THEN /\ chal' = [chal EXCEPT !.participants[c][u] = "completed",
                                       !.credits[c][u] = @ + 1,
                                       !.vc[p].pc = "done", !.vc[p].result = "ok"]
               /\ totalPoints' = [totalPoints EXCEPT ![u] = @ + ChallengePoints]
          ELSE /\ chal' = [chal EXCEPT !.participants[c][u] = "active",
                                       !.vc[p].pc = "done", !.vc[p].result = "ok"]
               /\ UNCHANGED totalPoints
    /\ UNCHANGED <<now, sprintPoints, focusPeriods, standups, streaks,
                   leaderboardChannel, posts, readers, writer, pending, apu, cs,
                   fs, sweepLog, tasks, users, fc, cw, gu, est, sched, lb,
                   exceptChal>>

\* A checked statement of the transaction or its commit fails: rollback.
VCTransactionFail(p) ==
    /\ chal.vc[p].pc = "tx"
    /\ chal' = [chal EXCEPT !.vc[p].pc = "done", !.vc[p].result = "error"]
    /\ UNCHANGED <<coreVars, exceptChal>>

\* The challenges are running, all their participants active.
InitValidate ==
    /\ CoreIdle
    /\ ExceptChalIdle
    /\ chal = [challenges |-> [c \in ChallengeIds |->
                                 [Status |-> "active",
                                  EndDate |-> MaxChallengeDays * TicksPerDay]],
               participants |-> [c \in ChallengeIds |->
                                   [u \in ValidateMembers |-> "active"]],
               credits |-> [c \in ChallengeIds |->
                              [u \in ValidateMembers |-> 0]],
               sweeps |-> 0, result |-> "none",
               vc |-> [p \in ValidationCalls |-> IdleValidation]]

NextValidate ==
    \/ \E c \in ChallengeIds, u \in UserIds : SubmitChallengeCompletion(c, u)
    \/ \E p \in ValidationCalls :
          VCFetch(p) \/ VCTransaction(p) \/ VCTransactionFail(p)

SpecValidate == InitValidate /\ [][NextValidate]_vars

\* C28: a participant is credited the points of a challenge at most once,
\* and a participant that is completed stays completed, whatever the
\* interleaving of the validation calls.
C28_CreditedOnceAndTerminal ==
    [][\A c \in ChallengeIds, u \in UserIds :
          /\ chal'.credits[c][u] <= 1
          /\ chal.participants[c][u] = "completed" =>
                 chal'.participants[c][u] = "completed"]_vars

\* ================================================================== wins
MaxWins == 3

\* CreateWin up to the read of the user, the row it creates counted.
CWCreate(p) ==
    /\ \E u \in UserIds :
          /\ wins[u] < MaxWins
          /\ CreateWinRead(p, u)
          /\ wins' = [wins EXCEPT ![u] = @ + 1]
    /\ UNCHANGED exceptWins

\* Nobody has shared a win; nobody has points.
InitWins ==
    /\ now = 0
    /\ totalPoints = [u \in UserIds |-> 0]
    /\ sprintPoints = <<>>
    /\ focusPeriods = <<>>
    /\ standups = <<>>
    /\ streaks = [u \in UserIds |-> <<>>]
    /\ leaderboardChannel = [g \in Guilds |-> ""]
    /\ posts = <<>>
    /\ readers = {}
    /\ writer = {}
    /\ pending = NoPending
    /\ apu = <<>>
    /\ cs = <<>>
    /\ fs = <<>>
    /\ sweepLog = <<>>
    /\ tasks = <<>>
    /\ users = <<>>
    /\ fc = <<>>
    /\ cw = [p \in WinPosters |-> IdleWinPoster]
    /\ gu = <<>>
    /\ est = <<>>
    /\ sched = 0
    /\ lb = <<>>
    /\ wins = [u \in UserIds |-> 0]
    /\ ExceptWinsIdle

NextWins ==
    \E p \in WinPosters : CWCreate(p) \/ CWSave(p)

\* /win share interactions racing one another, with no storage failure.
SpecWins == InitWins /\ [][NextWins]_vars

\* C29: every CreateWin call that returned a Win has credited 2 points:
\* when no call is in flight, the total of a user holds 2 points for each of
\* the user's wins.
C29_TwoPointsPerWin ==
    (\A p \in WinPosters : cw[p].pc = "idle") =>
        \A u \in UserIds : totalPoints[u] >= WinPoints * wins[u]

====
